---- MODULE Spec2Model ----
(***************************************************************************)
(* kuberollouttrigger: the event envelope (internal/payload), the OIDC     *)
(* token validator (internal/oidc), the web handler (internal/web) and the *)
(* worker's message handler (main.go), as state machines.                  *)
(*                                                                         *)
(* A Go string is a sequence of one-character strings, so that prefix,     *)
(* substring, concatenation and case folding are computed, not assumed.    *)
(* A JSON text is a sequence of lexical tokens; the decoder below parses   *)
(* it the way encoding/json's Decoder does for the Event struct.           *)
(***************************************************************************)
EXTENDS Integers, Sequences, FiniteSets, TLC

VARIABLES
    \* envelope parser: the input, the configured prefix, the result
    data, allowedPrefix, out,
    \* oidc.Validator: fields, the wall clock, the JWKS endpoint, the last call
    devMode, cachedKeys, cachedUntil, now, jwksStatus, jwksDoc, last,
    \* web.Server: the configured prefix, the messages passed to
    \* Publisher.Publish, the publish counter, the last request served
    imagePrefix, published, publishCount, lastReq,
    \* worker: the configured prefix, the Deployments of the cluster, the
    \* handler's counter, position and locals, the cluster calls of the pass,
    \* the handler's argument
    workerPrefix, cluster, messageCount, pc, imageRefs, refIdx, matchMap,
    pending, calls, lastCall, message,
    \* runWorker: the position of the retry loop, the root context, the time
    \* spent in the backoff, the error of the last Subscribe; the
    \* subscription, the messages it holds, the passes in progress; the
    \* channel: the messages published, those handed to the handler, those
    \* published while the worker had no subscription
    workerPc, ctxCancelled, waited, subErr, subscription, inbox, running,
    busCount, started, lost,
    \* runWeb: the position of the main goroutine and of the signal goroutine,
    \* the requests being handled, those accepted so far, those in flight at
    \* the signal, the time spent in Shutdown, the publisher's client
    mainPc, shutPc, inflight, accepted, atSignal, elapsed, publisherOpen,
    \* main: os.Args[1], the configured broker address, the outcome of the
    \* startup ping, and what runWeb or runWorker returned
    subcommand, valkeyAddr, pinged, runErr,
    \* concurrent ValidateToken calls: each caller's position and locals, the
    \* Validator's RWMutex, the key maps allocated so far and the one that
    \* cachedKeys refers to, the numbers of fetches and of evictions
    callers, mu, heap, cacheRef, fetchCount, evictCount

parseVars == <<data, allowedPrefix, out>>
validatorVars == <<devMode, cachedKeys, cachedUntil, now, jwksStatus, jwksDoc, last>>
webVars == <<imagePrefix, published, publishCount, lastReq>>
workerVars == <<workerPrefix, cluster, messageCount, pc, imageRefs, refIdx, matchMap,
                pending, calls, lastCall, message>>
loopVars == <<workerPc, ctxCancelled, waited, subErr, subscription, inbox, running,
              busCount, started, lost>>
webProcVars == <<mainPc, shutPc, inflight, accepted, atSignal, elapsed, publisherOpen>>
mainVars == <<subcommand, valkeyAddr, pinged, runErr>>
keysVars == <<callers, mu, heap, cacheRef, fetchCount, evictCount>>
procVars == <<loopVars, webProcVars>>
vars == <<data, allowedPrefix, out,
          devMode, cachedKeys, cachedUntil, now, jwksStatus, jwksDoc, last,
          imagePrefix, published, publishCount, lastReq,
          workerPrefix, cluster, messageCount, pc, imageRefs, refIdx, matchMap,
          pending, calls, lastCall, message,
          workerPc, ctxCancelled, waited, subErr, subscription, inbox, running,
          busCount, started, lost,
          mainPc, shutPc, inflight, accepted, atSignal, elapsed, publisherOpen,
          subcommand, valkeyAddr, pinged, runErr,
          callers, mu, heap, cacheRef, fetchCount, evictCount>>

(***************************************************************************)
(* Bounds                                                                  *)
(***************************************************************************)
MaxTags == 2
TicksPerHour == 2
MaxClock == 4
MaxPayloadTokens == 12
MaxPublished == 2
MaxMessages == 2
MaxMatches == 3
MaxBus == 3
MaxRequests == 2
MaxCallers == 2

(***************************************************************************)
(* Strings                                                                 *)
(***************************************************************************)
Min(S) == CHOOSE x \in S : \A y \in S : x <= y

HasPrefix(s, p) == Len(p) <= Len(s) /\ SubSeq(s, 1, Len(p)) = p

Contains(s, c) == \E i \in 1..Len(s) : s[i] = c

\* strings.EqualFold: equality under simple case folding (the model's
\* alphabet only).
EqualFold(a, b) ==
    LET Fold(c) == CASE c = "G" -> "g"
                     [] c = "S" -> "s"
                     [] c = "I" -> "i"
                     [] c = "T" -> "t"
                     [] c = "A" -> "a"
                     [] c = "O" -> "o"
                     [] OTHER -> c
    IN /\ Len(a) = Len(b)
       /\ \A i \in 1..Len(a) : Fold(a[i]) = Fold(b[i])

(***************************************************************************)
(* JSON tokens and values                                                  *)
(***************************************************************************)
Tok(k) == [k |-> k, s |-> <<>>]
LB  == Tok("{")
RB  == Tok("}")
LK  == Tok("[")
RK  == Tok("]")
CM  == Tok(",")
CL  == Tok(":")
WS  == Tok(" ")
NUL == Tok("null")
NUM == Tok("num")
JNK == Tok("junk")
STR(s) == [k |-> "str", s |-> s]

JVal(t, s, keys, items) == [t |-> t, s |-> s, keys |-> keys, items |-> items]
NullVal == JVal("null", <<>>, <<>>, <<>>)
BadParse == [ok |-> FALSE, v |-> NullVal, next |-> 0]
GoodParse(v, next) == [ok |-> TRUE, v |-> v, next |-> next]

\* Index of the first token at or after i that is not whitespace
\* (Len(toks)+1 when there is none).
SkipWS(toks, i) ==
    LET S == {j \in i..Len(toks) : toks[j].k # " "}
    IN IF S = {} THEN Len(toks) + 1 ELSE Min(S)

RECURSIVE ParseValue(_, _)
RECURSIVE ParseItems(_, _, _)
RECURSIVE ParseMembers(_, _, _, _)

\* The JSON grammar: the value that starts at token i, and the index of the
\* token after it.
ParseValue(toks, i) ==
    IF i > Len(toks) THEN BadParse
    ELSE LET k == toks[i].k
             j == SkipWS(toks, i + 1)
         IN CASE k = "str"  -> GoodParse(JVal("str", toks[i].s, <<>>, <<>>), i + 1)
              [] k = "num"  -> GoodParse(JVal("num", <<>>, <<>>, <<>>), i + 1)
              [] k = "null" -> GoodParse(NullVal, i + 1)
              [] k = "["    ->
                    IF j <= Len(toks) /\ toks[j].k = "]"
                    THEN GoodParse(JVal("arr", <<>>, <<>>, <<>>), j + 1)
                    ELSE ParseItems(toks, j, <<>>)
              [] k = "{"    ->
                    IF j <= Len(toks) /\ toks[j].k = "}"
                    THEN GoodParse(JVal("obj", <<>>, <<>>, <<>>), j + 1)
                    ELSE ParseMembers(toks, j, <<>>, <<>>)
              [] OTHER      -> BadParse

ParseItems(toks, i, acc) ==
    LET r == ParseValue(toks, i)
        j == SkipWS(toks, r.next)
    IN IF ~r.ok \/ j > Len(toks) THEN BadParse
       ELSE IF toks[j].k = "]"
            THEN GoodParse(JVal("arr", <<>>, <<>>, Append(acc, r.v)), j + 1)
       ELSE IF toks[j].k = ","
            THEN ParseItems(toks, SkipWS(toks, j + 1), Append(acc, r.v))
       ELSE BadParse

ParseMembers(toks, i, keys, items) ==
    IF i > Len(toks) \/ toks[i].k # "str" THEN BadParse
    ELSE LET c == SkipWS(toks, i + 1)
         IN IF c > Len(toks) \/ toks[c].k # ":" THEN BadParse
            ELSE LET r == ParseValue(toks, SkipWS(toks, c + 1))
                     j == SkipWS(toks, r.next)
                     ks == Append(keys, toks[i].s)
                     vs == Append(items, r.v)
                 IN IF ~r.ok \/ j > Len(toks) THEN BadParse
                    ELSE IF toks[j].k = "}"
                         THEN GoodParse(JVal("obj", <<>>, ks, vs), j + 1)
                    ELSE IF toks[j].k = ","
                         THEN ParseMembers(toks, SkipWS(toks, j + 1), ks, vs)
                    ELSE BadParse

(***************************************************************************)
(* internal/payload                                                        *)
(***************************************************************************)
\* type Event struct { Image string `json:"image"`; Tags []string `json:"tags"` }
Event(image, tags) == [Image |-> image, Tags |-> tags]
ZeroEvent == Event(<<>>, <<>>)

ImageKey == <<"i", "m", "a", "g", "e">>
TagsKey  == <<"t", "a", "g", "s">>

\* The text json.Marshal writes between the quotes for a Go string: a byte
\* that is not valid UTF-8 (here "<0xFF>") becomes the escape \ufffd, a
\* quotation mark is escaped, other characters are written as they are.
Quote(s) ==
    [i \in 1..Len(s) |->
        CASE s[i] = "<0xFF>" -> "\\ufffd"
          [] s[i] = "\""     -> "\\\""
          [] OTHER           -> s[i]]

\* The Go string the decoder makes of the text between the quotes: escapes
\* are resolved, and a byte that is not valid UTF-8 is replaced by U+FFFD.
Unquote(raw) ==
    [i \in 1..Len(raw) |->
        CASE raw[i] \in {"\\ufffd", "<0xFF>"} -> "<U+FFFD>"
          [] raw[i] = "\\\""                  -> "\""
          [] OTHER                             -> raw[i]]

\* The struct field a JSON key decodes into: an exact match of the json tag,
\* else a case-insensitive match (encoding/json), else none.
FieldOf(key) ==
    IF key = ImageKey THEN "Image"
    ELSE IF key = TagsKey THEN "Tags"
    ELSE IF EqualFold(key, ImageKey) THEN "Image"
    ELSE IF EqualFold(key, TagsKey) THEN "Tags"
    ELSE ""

\* A JSON array decoded into the []string that is already in the field: a
\* string sets the element, null leaves it as it is, anything else is a type
\* error.
DecodeTags(old, items) ==
    [i \in 1..Len(items) |->
        IF items[i].t = "str" THEN Unquote(items[i].s)
        ELSE IF i <= Len(old) THEN old[i] ELSE <<>>]

SaveError(st, e) == IF st.err = "" THEN [st EXCEPT !.err = e] ELSE st

\* One object member decoded into the Event (DisallowUnknownFields is set).
DecodeMember(st, key, v) ==
    LET f == FieldOf(Unquote(key))
    IN IF f = "" THEN SaveError(st, "unknown field")
       ELSE IF f = "Image"
       THEN CASE v.t = "str"  -> [st EXCEPT !.evt.Image = Unquote(v.s)]
              [] v.t = "null" -> st
              [] OTHER        -> SaveError(st, "cannot unmarshal into string")
       ELSE CASE v.t = "arr"  ->
                    LET st2 == [st EXCEPT !.evt.Tags = DecodeTags(st.evt.Tags, v.items)]
                    IN IF \E i \in 1..Len(v.items) : v.items[i].t \notin {"str", "null"}
                       THEN SaveError(st2, "cannot unmarshal into string")
                       ELSE st2
              [] v.t = "null" -> [st EXCEPT !.evt.Tags = <<>>]
              [] OTHER        -> SaveError(st, "cannot unmarshal into []string")

RECURSIVE DecodeMembers(_, _, _)
DecodeMembers(v, i, st) ==
    IF i > Len(v.keys) THEN st
    ELSE DecodeMembers(v, i + 1, DecodeMember(st, v.keys[i], v.items[i]))

\* dec.Decode(&evt): reads the first JSON value of the input and unmarshals
\* it into a zero Event.  next is the decoder's read position afterwards.
Decode(toks) ==
    LET i == SkipWS(toks, 1)
        r == ParseValue(toks, i)
    IN IF i > Len(toks) THEN [err |-> "EOF", evt |-> ZeroEvent, next |-> i]
       ELSE IF ~r.ok THEN [err |-> "syntax error", evt |-> ZeroEvent, next |-> i]
       ELSE IF r.v.t = "null" THEN [err |-> "", evt |-> ZeroEvent, next |-> r.next]
       ELSE IF r.v.t # "obj"
            THEN [err |-> "cannot unmarshal into Event", evt |-> ZeroEvent, next |-> r.next]
       ELSE LET st == DecodeMembers(r.v, 1, [evt |-> ZeroEvent, err |-> ""])
            IN [err |-> st.err, evt |-> st.evt, next |-> r.next]

\* dec.More(): the next non-whitespace byte exists and is neither ']' nor '}'.
More(toks, next) ==
    LET j == SkipWS(toks, next)
    IN j <= Len(toks) /\ toks[j].k # "]" /\ toks[j].k # "}"

\* ValidateEvent, mutated: the check for a '/' in the image is left out.
ValidateEvent_NoSlashCheck(evt, prefix) ==
    IF evt.Image = <<>> THEN "missing required field: image"
    ELSE IF Len(evt.Tags) = 0 THEN "missing required field: tags"
    ELSE IF \E i \in 1..Len(evt.Tags) : evt.Tags[i] = <<>> THEN "tags[i] is empty"
    ELSE IF ~HasPrefix(evt.Image, prefix) THEN "image does not start with allowed prefix"
    ELSE ""

\* The error of ValidateEvent, "" for nil.
ValidateEvent(evt, prefix) ==
    IF evt.Image = <<>> THEN "missing required field: image"
    ELSE IF Len(evt.Tags) = 0 THEN "missing required field: tags"
    ELSE IF \E i \in 1..Len(evt.Tags) : evt.Tags[i] = <<>> THEN "tags[i] is empty"
    ELSE IF ~HasPrefix(evt.Image, prefix) THEN "image does not start with allowed prefix"
    ELSE IF ~Contains(evt.Image, "/") THEN "image is not a valid container image reference"
    ELSE ""

PVResult(err, evt) == [done |-> TRUE, err |-> err, evt |-> evt]
NoResult == [done |-> FALSE, err |-> "", evt |-> ZeroEvent]

\* ParseAndValidate, mutated: the decoded event is returned without
\* ValidateEvent.
ParseAndValidate_SkipsValidateEvent(bytes, prefix) ==
    LET d == Decode(bytes)
    IN IF d.err # "" THEN PVResult("invalid JSON payload", ZeroEvent)
       ELSE IF More(bytes, d.next)
            THEN PVResult("invalid JSON payload: unexpected trailing content", ZeroEvent)
       ELSE PVResult("", d.evt)

ParseAndValidate(bytes, prefix) ==
    LET d == Decode(bytes)
    IN IF d.err # "" THEN PVResult("invalid JSON payload", ZeroEvent)
       ELSE IF More(bytes, d.next)
            THEN PVResult("invalid JSON payload: unexpected trailing content", ZeroEvent)
       ELSE LET e == ValidateEvent(d.evt, prefix)
            IN IF e # "" THEN PVResult(e, ZeroEvent) ELSE PVResult("", d.evt)

\* evt.ImageRefs(): image + ":" + tag for each tag, in order.
ImageRefs(e) == [i \in 1..Len(e.Tags) |-> e.Image \o <<":">> \o e.Tags[i]]

RECURSIVE JoinStrings(_, _)
JoinStrings(tags, i) ==
    IF i > Len(tags) THEN <<>>
    ELSE (IF i > 1 THEN <<CM>> ELSE <<>>) \o <<STR(Quote(tags[i]))>>
         \o JoinStrings(tags, i + 1)

\* evt.ToJSON(): json.Marshal of the struct, fields in declaration order, no
\* whitespace.  A nil slice marshals as null; the program only serializes
\* validated events, whose Tags are not empty.
ToJSON(e) ==
    <<LB, STR(ImageKey), CL, STR(Quote(e.Image)), CM, STR(TagsKey), CL>>
    \o (IF Len(e.Tags) = 0 THEN <<NUL>> ELSE <<LK>> \o JoinStrings(e.Tags, 1) \o <<RK>>)
    \o <<RB>>

(***************************************************************************)
(* internal/oidc: the token validator                                      *)
(***************************************************************************)
GitHubOIDCIssuer == "https://token.actions.githubusercontent.com"

\* jwksCacheTTL = 1 * time.Hour, in clock ticks.
jwksCacheTTL == 1 * TicksPerHour

\* The validator's configuration (NewValidator).
Audience   == "aud"
AllowedOrg == <<"a", "O">>

NoTime == -1            \* a time claim that is absent
NoKid  == "<absent>"    \* a header without a string kid
ZeroTime == 0           \* time.Time{}; the clock starts after it

\* A key map (map[string]crypto.PublicKey): nil, or a function kid -> key.
NilKeys == [nil |-> TRUE, m |-> <<>>]
KeyMap(m) == [nil |-> FALSE, m |-> m]

\* fetchJWKS: GET the document, then build the map from its RSA entries with
\* a decodable modulus and exponent; a later entry replaces an earlier one
\* with the same kid.
RECURSIVE CollectKeys(_, _, _)
CollectKeys(doc, i, m) ==
    IF i > Len(doc) THEN m
    ELSE LET k == doc[i]
         IN IF k.kty # "RSA" \/ ~k.nOK \/ ~k.eOK
            THEN CollectKeys(doc, i + 1, m)
            ELSE CollectKeys(doc, i + 1,
                    [x \in (DOMAIN m) \cup {k.kid} |-> IF x = k.kid THEN k.key ELSE m[x]])

fetchJWKS(status, doc) ==
    IF status = "unreachable" THEN [err |-> "failed to fetch JWKS", keys |-> NilKeys]
    ELSE IF status = "status500" THEN [err |-> "JWKS endpoint returned status", keys |-> NilKeys]
    ELSE [err |-> "", keys |-> KeyMap(CollectKeys(doc, 1, <<>>))]

Cache(keys, until) == [cachedKeys |-> keys, cachedUntil |-> until]

GKResult(keys, err, cache, fetched) ==
    [keys |-> keys, err |-> err, cache |-> cache, fetched |-> fetched]

\* The end of getKeys, mutated: a failed fetch falls back to the cached keys.
getKeysFetched_ServeStale(c, t, f) ==
    IF f.err # ""
    THEN IF ~c.cachedKeys.nil
         THEN GKResult(c.cachedKeys, "", c, TRUE)
         ELSE GKResult(NilKeys, f.err, c, TRUE)
    ELSE GKResult(f.keys, "", Cache(f.keys, t + jwksCacheTTL), TRUE)

\* The end of getKeys, f being what fetchJWKS returned: an error is passed
\* on and the cache left alone, a key map replaces the cache for one TTL.
getKeysFetched(c, t, f) ==
    IF f.err # ""
    THEN GKResult(NilKeys, f.err, c, TRUE)
    ELSE GKResult(f.keys, "", Cache(f.keys, t + jwksCacheTTL), TRUE)

\* getKeys at time t: the cached map while it is set and t is before
\* cachedUntil (the read-locked check and the double check under the write
\* lock are one step here); else a fetch.
getKeys(c, t, status, doc) ==
    IF ~c.cachedKeys.nil /\ t < c.cachedUntil
    THEN GKResult(c.cachedKeys, "", c, FALSE)
    ELSE getKeysFetched(c, t, fetchJWKS(status, doc))

\* What one getKeys call saw and returned.
Lookup(c, t, g) ==
    [preNil |-> c.cachedKeys.nil, preKeys |-> c.cachedKeys, preUntil |-> c.cachedUntil,
     at |-> t, fetched |-> g.fetched, err |-> g.err, keys |-> g.keys]

KFResult(key, err, cache, lookups, evictions) ==
    [key |-> key, err |-> err, cache |-> cache, lookups |-> lookups,
     evictions |-> evictions]

NoKey == ""

\* The eviction of keyFunc, mutated: cachedUntil is left as it is.
Evict_KeepsExpiry(c) == c

\* v.cachedUntil = time.Time{}
Evict(c) == [c EXCEPT !.cachedUntil = ZeroTime]

\* keyFunc after the refresh: g2 is the second getKeys result.
keyFuncRetry(tok, l1, l2, g2) ==
    IF g2.err # ""
    THEN KFResult(NoKey, "failed to refresh JWKS", g2.cache, <<l1, l2>>, 1)
    ELSE IF tok.kid \in DOMAIN g2.keys.m
         THEN KFResult(g2.keys.m[tok.kid], "", g2.cache, <<l1, l2>>, 1)
    ELSE KFResult(NoKey, "key not found in JWKS", g2.cache, <<l1, l2>>, 1)

\* keyFunc on a kid miss: evict (c2 is the evicted cache), look up again.
keyFuncRefresh(tok, l1, c2, t, g2) ==
    keyFuncRetry(tok, l1, Lookup(c2, t, g2), g2)

\* keyFunc after the first lookup, mutated: a kid miss fails at once.
keyFuncLookup_NoRefresh(tok, c, t, status, doc, g1) ==
    IF g1.err # ""
    THEN KFResult(NoKey, "failed to fetch JWKS", g1.cache, <<Lookup(c, t, g1)>>, 0)
    ELSE IF tok.kid \in DOMAIN g1.keys.m
         THEN KFResult(g1.keys.m[tok.kid], "", g1.cache, <<Lookup(c, t, g1)>>, 0)
    ELSE KFResult(NoKey, "key not found in JWKS", g1.cache, <<Lookup(c, t, g1)>>, 0)

\* keyFunc after the first lookup g1.
keyFuncLookup(tok, c, t, status, doc, g1) ==
    IF g1.err # ""
    THEN KFResult(NoKey, "failed to fetch JWKS", g1.cache, <<Lookup(c, t, g1)>>, 0)
    ELSE IF tok.kid \in DOMAIN g1.keys.m
         THEN KFResult(g1.keys.m[tok.kid], "", g1.cache, <<Lookup(c, t, g1)>>, 0)
    ELSE keyFuncRefresh(tok, Lookup(c, t, g1), Evict(g1.cache), t,
                        getKeys(Evict(g1.cache), t, status, doc))

\* keyFunc: the method must be an RSA one (*jwt.SigningMethodRSA), the header
\* must hold a string kid; on a kid miss the cache is evicted and the keys
\* are looked up once more.
keyFunc(tok, c, t, status, doc) ==
    IF tok.alg # "RS256" THEN KFResult(NoKey, "unexpected signing method", c, <<>>, 0)
    ELSE IF tok.kid = NoKid THEN KFResult(NoKey, "token header missing kid", c, <<>>, 0)
    ELSE keyFuncLookup(tok, c, t, status, doc, getKeys(c, t, status, doc))

\* golang-jwt: the signing methods the library registers.
RegisteredMethods == {"RS256", "PS256", "HS256", "none"}

\* Parser.ParseUnverified: three segments that decode, and a registered alg.
ParseUnverified(tok) ==
    IF tok.segs # "ok" THEN "token is malformed"
    ELSE IF tok.alg = "absent" THEN "signing method (alg) is unspecified"
    ELSE IF tok.alg \notin RegisteredMethods THEN "signing method (alg) is unavailable"
    ELSE ""

\* token.Method.Verify with the *rsa.PublicKey that keyFunc returned.
Verify(tok, key) == tok.alg \in {"RS256", "PS256"} /\ tok.sig = key

\* The parser options of ValidateToken, mutated: exp is not required.
parserOpts_ExpNotRequired == {"WithAudience", "WithIssuer"}

\* jwt.WithAudience(v.audience), jwt.WithIssuer(GitHubOIDCIssuer),
\* jwt.WithExpirationRequired()
parserOpts == {"WithAudience", "WithIssuer", "WithExpirationRequired"}

\* jwt.Validator.Validate with these options at time t (no leeway).
ClaimsValid(tok, opts, t) ==
    /\ IF tok.exp = NoTime THEN "WithExpirationRequired" \notin opts ELSE t < tok.exp
    /\ tok.nbf = NoTime \/ t >= tok.nbf
    /\ "WithAudience" \notin opts \/ Audience \in tok.aud
    /\ "WithIssuer" \notin opts \/ tok.iss = GitHubOIDCIssuer

PResult(err, valid, kf) == [err |-> err, valid |-> valid, kf |-> kf]

\* ParseWithClaims after keyFunc returned kf: the signature, then the claims.
ParseVerify(tok, opts, t, kf) ==
    IF kf.err # "" THEN PResult(kf.err, FALSE, kf)
    ELSE IF ~Verify(tok, kf.key) THEN PResult("signature is invalid", FALSE, kf)
    ELSE IF "WithoutClaimsValidation" \notin opts /\ ~ClaimsValid(tok, opts, t)
         THEN PResult("token has invalid claims", FALSE, kf)
    ELSE PResult("", TRUE, kf)

\* jwt.ParseWithClaims(tokenString, &claims, v.keyFunc, parserOpts...)
ParseWithClaims(tok, opts, c, t, status, doc) ==
    IF ParseUnverified(tok) # ""
    THEN PResult(ParseUnverified(tok), FALSE, KFResult(NoKey, "", c, <<>>, 0))
    ELSE ParseVerify(tok, opts, t, keyFunc(tok, c, t, status, doc))

\* The parse step of ValidateToken, mutated: dev mode verifies like production.
ParseToken_AlwaysVerifies(tok, dev, c, t, status, doc) ==
    ParseWithClaims(tok, parserOpts, c, t, status, doc)

\* The parse step of ValidateToken: unverified in dev mode.
ParseToken(tok, dev, c, t, status, doc) ==
    IF dev
    THEN PResult(ParseUnverified(tok), FALSE, KFResult(NoKey, "", c, <<>>, 0))
    ELSE ParseWithClaims(tok, parserOpts, c, t, status, doc)

NoClaims == [present |-> FALSE, RepositoryOwner |-> <<>>]
ClaimsOf(tok) == [present |-> TRUE, RepositoryOwner |-> tok.owner]

VTResult(err, claims, kf) ==
    [err |-> err, claims |-> claims, cache |-> kf.cache, lookups |-> kf.lookups,
     evictions |-> kf.evictions, key |-> kf.key]

OwnerError == "token organization does not match allowed org"

\* The checks of ValidateToken after the parse, mutated: dev mode returns the
\* claims without the owner check.
CheckParsed_DevSkipsOwner(tok, dev, p) ==
    IF p.err # "" THEN VTResult(p.err, NoClaims, p.kf)
    ELSE IF ~p.valid /\ ~dev THEN VTResult("invalid token", NoClaims, p.kf)
    ELSE IF ~dev /\ ~EqualFold(tok.owner, AllowedOrg)
         THEN VTResult(OwnerError, NoClaims, p.kf)
    ELSE VTResult("", ClaimsOf(tok), p.kf)

\* The checks of ValidateToken after the parse p: its error, token.Valid
\* outside dev mode, the organization restriction.
CheckParsed(tok, dev, p) ==
    IF p.err # "" THEN VTResult(p.err, NoClaims, p.kf)
    ELSE IF ~p.valid /\ ~dev THEN VTResult("invalid token", NoClaims, p.kf)
    ELSE IF ~EqualFold(tok.owner, AllowedOrg)
         THEN VTResult(OwnerError, NoClaims, p.kf)
    ELSE VTResult("", ClaimsOf(tok), p.kf)

\* Validator.ValidateToken at time t, with the cache c and the JWKS endpoint
\* answering (status, doc): the error ("" for nil), the claims, the cache
\* afterwards, and what keyFunc did.
ValidateToken(tok, dev, c, t, status, doc) ==
    CheckParsed(tok, dev, ParseToken(tok, dev, c, t, status, doc))

(***************************************************************************)
(* Inputs of the validator: tokens and JWKS documents                      *)
(***************************************************************************)
OwnerLower == <<"a", "o">>
OwnerOther == <<"b", "o">>

\* A token GitHub would issue for the configured audience, signed by K1; it
\* expires after the clock's last tick.
BaseToken ==
    [segs |-> "ok", alg |-> "RS256", kid |-> "k1", sig |-> "K1",
     iss |-> GitHubOIDCIssuer, aud |-> {Audience}, exp |-> MaxClock + 1, nbf |-> NoTime,
     owner |-> OwnerLower]

\* Everything wrong except the owner.
SloppyToken ==
    [segs |-> "ok", alg |-> "RS256", kid |-> "k1", sig |-> "Kx",
     iss |-> "https://other.example", aud |-> {"other"}, exp |-> 1, nbf |-> NoTime,
     owner |-> OwnerLower]

\* Every shape with a matching owner; some also with the owner spelled as
\* configured and with a foreign owner.
Tokens ==
    LET Owners == {OwnerLower, AllowedOrg, OwnerOther}
        KidSigPairs == { <<"k1", "K2">>, <<"k1", "Kx">>, <<"k2", "K2">>, <<"k2", "K1">>,
                         <<"", "K1">>, <<NoKid, "K1">> }
        TokenShapes ==
            {BaseToken, SloppyToken, [BaseToken EXCEPT !.segs = "malformed"]}
            \cup {[BaseToken EXCEPT !.alg = x] :
                    x \in {"PS256", "HS256", "none", "bogus", "absent"}}
            \cup {[BaseToken EXCEPT !.kid = ks[1], !.sig = ks[2]] : ks \in KidSigPairs}
            \cup {[BaseToken EXCEPT !.iss = "https://other.example"]}
            \cup {[BaseToken EXCEPT !.aud = x] : x \in {{}, {"other"}, {"other", Audience}}}
            \cup {[BaseToken EXCEPT !.exp = e] : e \in {NoTime, 2}}
            \cup {[BaseToken EXCEPT !.nbf = n] : n \in {1, 3}}
        OwnerVariedShapes ==
            {BaseToken, SloppyToken, [BaseToken EXCEPT !.exp = 2],
             [BaseToken EXCEPT !.aud = {"other"}], [BaseToken EXCEPT !.segs = "malformed"]}
    IN TokenShapes \cup {[t EXCEPT !.owner = o] : t \in OwnerVariedShapes, o \in Owners}

JWK(kid, kty, nOK, eOK, key) ==
    [kid |-> kid, kty |-> kty, nOK |-> nOK, eOK |-> eOK, key |-> key]

Doc1  == << JWK("k1", "RSA", TRUE, TRUE, "K1") >>
Doc12 == << JWK("k1", "RSA", TRUE, TRUE, "K1"), JWK("k2", "RSA", TRUE, TRUE, "K2") >>
DocSkipped == << JWK("k3", "EC", TRUE, TRUE, "K3"), JWK("k1", "RSA", FALSE, TRUE, "K1") >>
\* A document with an empty keys list, and one whose only entry has no kid
\* member (jwkKey.KID is then the empty string).
DocEmpty == << >>
DocNoKid == << JWK("", "RSA", TRUE, TRUE, "K1") >>
Docs == {Doc1, Doc12, DocSkipped, DocEmpty, DocNoKid}

JWKSStatuses == {"ok", "unreachable", "status500"}

(***************************************************************************)
(* Inputs of the envelope parser                                           *)
(***************************************************************************)
ImgGS    == <<"g", "/", "s">>
ImgGT    == <<"g", "/", "t">>
ImgDS    == <<"d", "/", "s">>
ImgG     == <<"g">>
ImgUpper == <<"G", "/", "s">>
PrefixG  == <<"g", "/">>
PrefixNoSlash == <<"g">>
TagD == <<"d">>
TagV == <<"v">>

Prefixes == {PrefixG, PrefixNoSlash}

Events ==
    LET ImageStrings == {<<>>, ImgGS, ImgGT, ImgDS, ImgG, ImgUpper, <<"g", "/", "<0xFF>">>}
        TagStrings == {<<>>, TagD, TagV, <<"\"">>}
    IN {Event(i, t) : i \in ImageStrings,
                      t \in UNION {[1..k -> TagStrings] : k \in 0..MaxTags}}

\* An object text from its members <<key, value tokens>>.
RECURSIVE MemberToks(_, _)
MemberToks(ms, i) ==
    IF i > Len(ms) THEN <<>>
    ELSE (IF i > 1 THEN <<CM>> ELSE <<>>) \o <<STR(ms[i][1]), CL>> \o ms[i][2]
         \o MemberToks(ms, i + 1)

ObjToks(ms) == <<LB>> \o MemberToks(ms, 1) \o <<RB>>

BaseBody == ToJSON(Event(ImgGS, <<TagD>>))

\* The inputs of the parser: valid envelopes, what may follow the first JSON
\* value of a body, key spellings, value types, repeated keys, broken texts.
Bodies ==
    LET
        Trailers == { <<WS>>, <<JNK>>, <<NUM>>, <<NUL>>, <<STR(TagD)>>, <<CM>>, <<RB>>, <<RK>>,
              <<WS, JNK>>, <<WS, RB>>, <<WS, RK>>, <<RB, JNK>>, <<RK, NUM>>, <<RB, WS>>,
              <<LB, RB>>, BaseBody }
        ImageKeyVariants == { ImageKey, <<"I", "m", "a", "g", "e">>, <<"I", "M", "A", "G", "E">>,
                              <<"i", "m", "g">> }
        TagsKeyVariants == { TagsKey, <<"T", "a", "g", "s">>, <<"T", "A", "G", "S">>,
                              <<"t", "a", "g">> }
        ExtraMembers == { <<>>, << <<<<"x">>, <<NUM>>>> >>, << <<<<"x">>, <<STR(TagD)>>>> >> }
        ImageValues == { <<STR(ImgGS)>>, <<NUM>>, <<NUL>>, <<LK, STR(ImgGS), RK>>, <<LB, RB>> }
        TagsValues == { <<LK, STR(TagD), RK>>, <<LK, STR(TagD), CM, STR(TagV), RK>>,
                         <<LK, NUM, RK>>, <<LK, STR(TagD), CM, NUL, RK>>, <<LK, NUL, RK>>,
                         <<LK, RK>>, <<STR(TagD)>>, <<NUM>>, <<NUL>>, <<LB, RB>>,
                         <<LK, LK, STR(TagD), RK, RK>> }
        KeyBodies == { ObjToks(<< <<ik, <<STR(ImgGS)>>>>, <<tk, <<LK, STR(TagD), RK>>>> >> \o x) :
                ik \in ImageKeyVariants, tk \in TagsKeyVariants, x \in ExtraMembers }
        TypeBodies == { ObjToks(<< <<ImageKey, iv>>, <<TagsKey, tv>> >>) :
                iv \in ImageValues, tv \in TagsValues }
        DuplicateKeyBodies == { ObjToks(<< <<ImageKey, <<STR(ImgDS)>>>>, <<ImageKey, <<STR(ImgGS)>>>>,
                         <<TagsKey, <<LK, STR(TagD), RK>>>> >>),
              ObjToks(<< <<ImageKey, <<STR(ImgGS)>>>>, <<ImageKey, <<NUL>>>>,
                         <<TagsKey, <<LK, STR(TagD), RK>>>> >>),
              ObjToks(<< <<TagsKey, <<LK, STR(TagD), CM, STR(TagV), RK>>>>,
                         <<TagsKey, <<LK, NUL, RK>>>>, <<ImageKey, <<STR(ImgGS)>>>> >>) }
        MalformedBodies == { <<>>, <<WS>>, <<JNK>>, <<JNK, WS, JNK>>, <<NUL>>, <<NUM>>, <<STR(ImgGS)>>,
              <<LB>>, <<LB, RB>>, <<LK, RK>>, <<LB, STR(ImageKey), RB>>,
              <<LB, STR(ImageKey), CL, STR(ImgGS), CM, RB>>,
              <<LB, STR(ImageKey), CL, STR(ImgGS)>>,
              <<RB>>, <<WS>> \o BaseBody, <<LB, WS>> \o Tail(BaseBody) }
    IN
        {ToJSON(e) : e \in Events}
        \cup {BaseBody \o t : t \in Trailers}
        \cup KeyBodies \cup TypeBodies \cup DuplicateKeyBodies \cup MalformedBodies

(***************************************************************************)
(* internal/web: the HTTP handler                                          *)
(***************************************************************************)
\* maxPayloadSize = 1 << 20 bytes, in body tokens.
maxPayloadSize == MaxPayloadTokens

ApplicationJSON == <<"application/json">>
BearerPrefix == <<"Bearer", " ">>

\* io.ReadAll(io.LimitReader(r.Body, maxPayloadSize)): at most maxPayloadSize
\* of the body, without an error when there is more.
LimitRead(body) ==
    SubSeq(body, 1, IF Len(body) < maxPayloadSize THEN Len(body) ELSE maxPayloadSize)

\* The Authorization header is scheme \o credentials; the credentials are a
\* token text, which has no space in it.
\* strings.TrimPrefix(authHeader, "Bearer "): what is left of the scheme goes
\* before the credentials, and the result is then no JWT.
TrimBearer(auth) ==
    IF Len(auth.scheme) > Len(BearerPrefix)
    THEN [auth.cred EXCEPT !.segs = "malformed"]
    ELSE auth.cred

\* What handleEvent did: the response status, the steps it reached, the
\* results of ValidateToken and ParseAndValidate, the message given to
\* Publish.
Outcome(status, steps, vt, pv, msg) ==
    [status |-> status, steps |-> steps, vt |-> vt, pv |-> pv, msg |-> msg]

NotValidated(c) == VTResult("", NoClaims, KFResult(NoKey, "", c, <<>>, 0))

EventSteps ==
    <<"ContentType", "Authorization", "ValidateToken", "ReadBody", "ParseAndValidate",
      "ToJSON", "Publish">>

\* publisher.Publish(msg), mutated: the repository owner of the token is
\* added to the message.
handlePublish_AddsOwner(vt, pv, msg, pubOK) ==
    Outcome(IF pubOK THEN 202 ELSE 502, EventSteps, vt, pv,
            msg \o <<STR(Quote(vt.claims.RepositoryOwner))>>)

\* publisher.Publish(msg) returned: 502 on an error, else 202.
handlePublish(vt, pv, msg, pubOK) ==
    Outcome(IF pubOK THEN 202 ELSE 502, EventSteps, vt, pv, msg)

\* handleEvent after ParseAndValidate returned pv.  json.Marshal of a string
\* and a []string cannot fail, so the 500 branch is never taken.
handleParsed(vt, pv, pubOK) ==
    IF pv.err # ""
    THEN Outcome(400, SubSeq(EventSteps, 1, 5), vt, pv, <<>>)
    ELSE handlePublish(vt, pv, ToJSON(pv.evt), pubOK)

\* handleEvent after ValidateToken returned vt, mutated: the token error is
\* logged and the request goes on.
handleValidated_IgnoresTokenError(req, vt, prefix, pubOK) ==
    IF req.bodyErr
    THEN Outcome(400, SubSeq(EventSteps, 1, 4), vt, NoResult, <<>>)
    ELSE handleParsed(vt, ParseAndValidate(LimitRead(req.body), prefix), pubOK)

\* handleEvent after ValidateToken returned vt.
handleValidated(req, vt, prefix, pubOK) ==
    IF vt.err # ""
    THEN Outcome(401, SubSeq(EventSteps, 1, 3), vt, NoResult, <<>>)
    ELSE IF req.bodyErr
    THEN Outcome(400, SubSeq(EventSteps, 1, 4), vt, NoResult, <<>>)
    ELSE handleParsed(vt, ParseAndValidate(LimitRead(req.body), prefix), pubOK)

\* Server.handleEvent, mutated: the Authorization header is looked at before
\* the content type.
handleEvent_HeaderFirst(req, dev, c, t, status, doc, prefix, pubOK) ==
    IF (req.auth.scheme = <<>> /\ req.auth.cred.segs = "empty")
       \/ ~HasPrefix(req.auth.scheme, BearerPrefix)
    THEN Outcome(401, SubSeq(EventSteps, 1, 2), NotValidated(c), NoResult, <<>>)
    ELSE IF ~HasPrefix(req.ct, ApplicationJSON)
    THEN Outcome(400, SubSeq(EventSteps, 1, 1), NotValidated(c), NoResult, <<>>)
    ELSE handleValidated(req, ValidateToken(TrimBearer(req.auth), dev, c, t, status, doc),
                         prefix, pubOK)

\* Server.handleEvent.
handleEvent(req, dev, c, t, status, doc, prefix, pubOK) ==
    IF ~HasPrefix(req.ct, ApplicationJSON)
    THEN Outcome(400, SubSeq(EventSteps, 1, 1), NotValidated(c), NoResult, <<>>)
    ELSE IF (req.auth.scheme = <<>> /\ req.auth.cred.segs = "empty")
            \/ ~HasPrefix(req.auth.scheme, BearerPrefix)
    THEN Outcome(401, SubSeq(EventSteps, 1, 2), NotValidated(c), NoResult, <<>>)
    ELSE handleValidated(req, ValidateToken(TrimBearer(req.auth), dev, c, t, status, doc),
                         prefix, pubOK)

\* Server.Handler: the routes "POST /event" and "GET /healthz" of the mux; a
\* known path with another method is 405, an unknown path 404.
Handler(req, dev, c, t, status, doc, prefix, pubOK) ==
    IF req.path = "/event"
    THEN IF req.method = "POST"
         THEN handleEvent(req, dev, c, t, status, doc, prefix, pubOK)
         ELSE Outcome(405, <<>>, NotValidated(c), NoResult, <<>>)
    ELSE IF req.path = "/healthz"
    THEN IF req.method = "GET"
         THEN Outcome(200, <<>>, NotValidated(c), NoResult, <<>>)
         ELSE Outcome(405, <<>>, NotValidated(c), NoResult, <<>>)
    ELSE Outcome(404, <<>>, NotValidated(c), NoResult, <<>>)

(***************************************************************************)
(* Inputs of the web handler                                               *)
(***************************************************************************)
Auth(scheme, cred) == [scheme |-> scheme, cred |-> cred]

Request(method, path, ct, auth, body, bodyErr) ==
    [method |-> method, path |-> path, ct |-> ct, auth |-> auth, body |-> body,
     bodyErr |-> bodyErr]

BaseRequest ==
    Request("POST", "/event", ApplicationJSON, Auth(BearerPrefix, BaseToken), BaseBody, FALSE)

WrongOwnerToken == [BaseToken EXCEPT !.owner = OwnerOther]

ExtraFieldBody ==
    ObjToks(<< <<ImageKey, <<STR(ImgGS)>>>>, <<TagsKey, <<LK, STR(TagD), RK>>>>,
               <<<<"e", "x", "t", "r", "a">>, <<NUM>>>> >>)
WrongPrefixBody == ToJSON(Event(ImgDS, <<TagD>>))

\* A body one token longer than maxPayloadSize: a valid envelope, white space
\* up to the limit, and text that is no JSON after the limit.
OversizeBody ==
    BaseBody \o [i \in 1..(maxPayloadSize - Len(BaseBody)) |-> WS] \o <<JNK>>

\* Requests that differ from BaseRequest in the route, the content type, the
\* Authorization header, the token, the body, and some in two of them.
Requests ==
    LET EmptyToken == [BaseToken EXCEPT !.segs = "empty"]
        WebTokens ==
            {BaseToken, WrongOwnerToken, SloppyToken, [BaseToken EXCEPT !.owner = AllowedOrg],
             [BaseToken EXCEPT !.segs = "malformed"],
             [BaseToken EXCEPT !.kid = "k2", !.sig = "K2"]}
        WebBodies ==
            { BaseBody, ToJSON(Event(ImgGS, <<TagD, TagV>>)), ExtraFieldBody, WrongPrefixBody,
              ToJSON(Event(ImgG, <<TagD>>)), ToJSON(Event(ImgGS, <<>>)),
              ToJSON(Event(ImgGS, <<TagD, <<>>>>)),
              ObjToks(<< <<ImageKey, <<STR(ImgGS)>>>>,
                         <<<<"T", "a", "g", "s">>, <<LK, STR(TagV), RK>>>> >>),
              BaseBody \o <<RK>>, BaseBody \o <<JNK>>, BaseBody \o <<WS, JNK>>,
              <<WS>> \o BaseBody, <<>>, <<NUL>>, OversizeBody }
    IN
    {BaseRequest}
    \cup {[BaseRequest EXCEPT !.method = mp[1], !.path = mp[2]] :
            mp \in {<<"GET", "/event">>, <<"GET", "/healthz">>, <<"POST", "/healthz">>,
                    <<"GET", "/other">>, <<"POST", "/event/">>}}
    \cup {[BaseRequest EXCEPT !.ct = ct] :
            ct \in {<<>>, <<"text/plain">>, <<"application/json", "; charset=utf-8">>}}
    \cup {[BaseRequest EXCEPT !.auth = x] :
            x \in {Auth(<<>>, EmptyToken), Auth(<<>>, BaseToken),
                   Auth(<<"Basic", " ">>, BaseToken), Auth(<<"bearer", " ">>, BaseToken),
                   Auth(<<"Bearer">>, BaseToken), Auth(BearerPrefix, EmptyToken),
                   Auth(<<"Bearer", " ", " ">>, BaseToken)}}
    \cup {[BaseRequest EXCEPT !.auth = Auth(BearerPrefix, tok)] : tok \in WebTokens}
    \cup {[BaseRequest EXCEPT !.body = x] : x \in WebBodies}
    \cup {[BaseRequest EXCEPT !.bodyErr = TRUE]}
    \cup {[BaseRequest EXCEPT !.auth = Auth(BearerPrefix, WrongOwnerToken), !.body = x] :
            x \in {ExtraFieldBody, WrongPrefixBody}}
    \cup {[BaseRequest EXCEPT !.ct = <<"text/plain">>, !.auth = x] :
            x \in {Auth(<<>>, EmptyToken), Auth(BearerPrefix, WrongOwnerToken)}}

(***************************************************************************)
(* internal/k8s and the worker's message handler                           *)
(***************************************************************************)
Container(name, image) == [Name |-> name, Image |-> image]

\* A Deployment: its identity, its replica count and selector, and the
\* containers and annotations of its pod template.
Deployment(ns, name, containers, annotations) ==
    [Namespace |-> ns, Name |-> name, Replicas |-> 1, Selector |-> name,
     Containers |-> containers, Annotations |-> annotations]

MatchingDeployment(ns, name, containerNames) ==
    [Namespace |-> ns, Name |-> name, ContainerNames |-> containerNames]

\* The names of the matching containers, mutated: an image that starts with
\* imageRef matches.
ContainerNamesOf_PrefixMatch(d, imageRef) ==
    LET m == SelectSeq(d.Containers, LAMBDA c : HasPrefix(c.Image, imageRef))
    IN [i \in 1..Len(m) |-> m[i].Name]

\* The names of the containers of d whose image is imageRef, in order.
ContainerNamesOf(d, imageRef) ==
    LET m == SelectSeq(d.Containers, LAMBDA c : c.Image = imageRef)
    IN [i \in 1..Len(m) |-> m[i].Name]

\* Restarter.FindMatchingDeployments over the listed items.
RECURSIVE FindMatchingDeployments(_, _, _)
FindMatchingDeployments(items, i, imageRef) ==
    IF i > Len(items) THEN <<>>
    ELSE (IF Len(ContainerNamesOf(items[i], imageRef)) > 0
          THEN << MatchingDeployment(items[i].Namespace, items[i].Name,
                                     ContainerNamesOf(items[i], imageRef)) >>
          ELSE <<>>)
         \o FindMatchingDeployments(items, i + 1, imageRef)

RestartedAtKey == "kubectl.kubernetes.io/restartedAt"

\* The patch body: the pod-template annotations it names, with the time in
\* RFC 3339 form.
RestartPatch(t) == [k \in {RestartedAtKey} |-> ToString(t)]

\* The patch applied to a Deployment, mutated: the annotations of the pod
\* template are replaced by those of the patch.
MergePatch_ReplacesAnnotations(d, patch) == [d EXCEPT !.Annotations = patch]

\* The patch applied to a Deployment as a strategic merge patch: the
\* annotations it names are set, everything else is kept.
MergePatch(d, patch) ==
    [d EXCEPT !.Annotations =
        [k \in (DOMAIN d.Annotations) \cup (DOMAIN patch) |->
            IF k \in DOMAIN patch THEN patch[k] ELSE d.Annotations[k]]]

\* Restarter.RestartDeployment at time t: the patch sent for the named
\* Deployment; an error when the API call fails or there is no such
\* Deployment.
RestartDeployment(items, ns, name, t, apiOK) ==
    IF ~apiOK \/ ~\E i \in 1..Len(items) : items[i].Namespace = ns /\ items[i].Name = name
    THEN [err |-> "failed to patch deployment", items |-> items]
    ELSE [err |-> "",
          items |-> [i \in 1..Len(items) |->
                        IF items[i].Namespace = ns /\ items[i].Name = name
                        THEN MergePatch(items[i], RestartPatch(t))
                        ELSE items[i]]]

Range(f) == {f[x] : x \in DOMAIN f}

\* key := m.Namespace + "/" + m.Name, mutated: the container names are part
\* of the key.
MatchKey_PerContainers(m) ==
    m.Namespace \o <<"/">> \o m.Name \o <<"/">> \o m.ContainerNames[1]

\* key := m.Namespace + "/" + m.Name
MatchKey(m) == m.Namespace \o <<"/">> \o m.Name

\* The merged container names: the union of both lists, in the iteration
\* order ord of the containerSet map.
MergeNames(existing, new, ord) ==
    SelectSeq(ord, LAMBDA c : c \in Range(existing) \cup Range(new))

\* One match added to matchMap.
AddMatch(mm, m, ord) ==
    IF MatchKey(m) \in DOMAIN mm
    THEN [mm EXCEPT ![MatchKey(m)].ContainerNames =
                MergeNames(mm[MatchKey(m)].ContainerNames, m.ContainerNames, ord)]
    ELSE [k \in (DOMAIN mm) \cup {MatchKey(m)} |-> IF k = MatchKey(m) THEN m ELSE mm[k]]

RECURSIVE AddMatches(_, _, _, _)
AddMatches(mm, matches, i, ords) ==
    IF i > Len(matches) THEN mm
    ELSE AddMatches(AddMatch(mm, matches[i], ords[i]), matches, i + 1, ords)

\* One call to the cluster, as the pass made it.
ListCall(ref, ok, matches) ==
    [op |-> "list", ref |-> ref, ns |-> <<>>, name |-> <<>>, ok |-> ok,
     matches |-> [i \in 1..Len(matches) |-> <<matches[i].Namespace, matches[i].Name>>]]
PatchCall(ns, name, ok) ==
    [op |-> "patch", ref |-> <<>>, ns |-> ns, name |-> name, ok |-> ok, matches |-> <<>>]

\* The latest call in full: the call, what a list returned, and the
\* Deployments of the cluster before and after it.
CallDetail(call, found, before, after) ==
    [call |-> call, found |-> found, before |-> before, after |-> after]

(***************************************************************************)
(* Inputs of the worker: cluster contents and channel messages             *)
(***************************************************************************)
Ref(image, tag) == image \o <<":">> \o tag

\* The iteration orders of a containerSet of two names.
ContainerOrders == { << <<"app">>, <<"side">> >>, << <<"side">>, <<"app">> >> }

\* Cluster contents.  web has two containers that match different tags of
\* one image and an annotation of its own; api was restarted before; web2
\* has the same name in another namespace and two containers of one image;
\* near has images that only resemble a reference: another path, another
\* case, a longer tag.
Clusters ==
    LET web  == Deployment(<<"n1">>, <<"web">>,
                    << Container(<<"app">>, Ref(ImgGS, TagD)),
                       Container(<<"side">>, Ref(ImgGS, TagV)) >>,
                    [k \in {"team"} |-> "a"])
        api  == Deployment(<<"n1">>, <<"api">>, << Container(<<"app">>, Ref(ImgGS, TagD)) >>,
                    [k \in {"team", RestartedAtKey} |-> IF k = "team" THEN "b" ELSE "0"])
        web2 == Deployment(<<"n2">>, <<"web">>,
                    << Container(<<"app">>, Ref(ImgGS, TagD)),
                       Container(<<"side">>, Ref(ImgGS, TagD)) >>,
                    [k \in {} |-> ""])
        near == Deployment(<<"n2">>, <<"api">>,
                    << Container(<<"app">>, Ref(ImgGT, TagD)),
                       Container(<<"side">>, Ref(ImgUpper, TagD)),
                       Container(<<"long">>, Ref(ImgGS, TagD \o <<"x">>)) >>,
                    [k \in {"team"} |-> "c"])
    IN { <<>>, <<web, api>>, <<web, web2, near>>, <<near>> }

WorkerMessages ==
    { ToJSON(Event(ImgGS, tags)) :
        tags \in {<<TagD>>, <<TagD, TagD>>, <<TagD, TagV>>, <<TagV, TagD>>} }
    \cup { WrongPrefixBody, ExtraFieldBody, <<JNK>>, BaseBody \o <<RK>> }

(***************************************************************************)
(* The state of each component while another one is under study           *)
(***************************************************************************)
ParseIdle == data = <<>> /\ allowedPrefix = <<>> /\ out = NoResult

NoCall ==
    [done |-> FALSE, tok |-> BaseToken, at |-> 0, err |-> "", claims |-> NoClaims,
     lookups |-> <<>>, evictions |-> 0, key |-> NoKey,
     status |-> "ok", doc |-> <<>>]

ValidatorIdle ==
    /\ devMode = FALSE /\ cachedKeys = NilKeys /\ cachedUntil = ZeroTime
    /\ now = 1 /\ jwksStatus = "ok" /\ jwksDoc = Doc1 /\ last = NoCall

NoRequest ==
    [done |-> FALSE, req |-> BaseRequest, status |-> 0, steps |-> <<>>,
     tokErr |-> "", pv |-> NoResult, pubBefore |-> 0, pubOK |-> TRUE,
     prevOwner |-> <<>>]

WebIdle ==
    imagePrefix = <<>> /\ published = <<>> /\ publishCount = 0 /\ lastReq = NoRequest

\* What a run function has returned: nothing yet, nil, or an error.
NotReturned == <<"running">>
NilError == <<>>

\* main before the subcommand is looked at.
MainIdle ==
    subcommand = "" /\ valkeyAddr = <<>> /\ pinged = "no" /\ runErr = NotReturned

\* No ValidateToken call in progress, the mutex free, no key map allocated.
NoCaller ==
    [pc |-> "idle", kid |-> "", round |-> 0, held |-> 0, stale |-> FALSE,
     fetched |-> FALSE, err |-> ""]
Unlocked == [readers |-> {}, writer |-> 0]

KeysIdle ==
    /\ callers = <<>> /\ mu = Unlocked /\ heap = <<>> /\ cacheRef = 0
    /\ fetchCount = 0 /\ evictCount = 0

\* runWorker at p of its code, nothing published yet.
LoopAt(p) ==
    /\ workerPc = p /\ ctxCancelled = FALSE /\ waited = 0 /\ subErr = ""
    /\ subscription = "off" /\ inbox = <<>> /\ running = {}
    /\ busCount = 0 /\ started = <<>> /\ lost = {}

LoopIdle == LoopAt("loop")

\* runWeb at p, before any request and any signal.
WebProcAt(p) ==
    /\ mainPc = p /\ shutPc = "waiting" /\ inflight = {} /\ accepted = 0
    /\ atSignal = {} /\ elapsed = 0 /\ publisherOpen = TRUE

WebProcIdle == WebProcAt("serving")

NoClusterCall == CallDetail(ListCall(<<>>, FALSE, <<>>), <<>>, <<>>, <<>>)

WorkerIdle ==
    /\ workerPrefix = <<>> /\ cluster = <<>> /\ messageCount = 0 /\ pc = "idle"
    /\ imageRefs = <<>> /\ refIdx = 0 /\ matchMap = <<>> /\ pending = {}
    /\ calls = <<>> /\ lastCall = NoClusterCall /\ message = <<>>

(***************************************************************************)
(* SpecParse: ParseAndValidate applied to one input                        *)
(***************************************************************************)

InitParse ==
    /\ ValidatorIdle /\ WebIdle /\ WorkerIdle /\ LoopIdle /\ WebProcIdle /\ MainIdle /\ KeysIdle
    /\ data \in Bodies
    /\ allowedPrefix \in Prefixes
    /\ out = NoResult

Parse ==
    /\ ~out.done
    /\ out' = ParseAndValidate(data, allowedPrefix)
    /\ UNCHANGED <<data, allowedPrefix, validatorVars, webVars, workerVars, procVars, mainVars, keysVars>>

NextParse == Parse

SpecParse == InitParse /\ [][NextParse]_vars

(***************************************************************************)
(* SpecValidator: ValidateToken calls on one Validator, while the clock    *)
(* advances and the JWKS endpoint changes                                  *)
(***************************************************************************)
InitValidator ==
    /\ ParseIdle /\ WebIdle /\ WorkerIdle /\ LoopIdle /\ WebProcIdle /\ MainIdle /\ KeysIdle
    /\ devMode \in BOOLEAN
    /\ cachedKeys = NilKeys
    /\ cachedUntil = ZeroTime
    /\ now = 1
    /\ jwksStatus = "ok"
    /\ jwksDoc = Doc1
    /\ last = NoCall

\* One ValidateToken call.
Validated(tok, r) ==
    /\ cachedKeys' = r.cache.cachedKeys
    /\ cachedUntil' = r.cache.cachedUntil
    /\ last' = [done |-> TRUE, tok |-> tok, at |-> now, err |-> r.err,
                claims |-> r.claims, lookups |-> r.lookups,
                evictions |-> r.evictions, key |-> r.key,
                status |-> jwksStatus, doc |-> jwksDoc]
    /\ UNCHANGED <<devMode, now, jwksStatus, jwksDoc, parseVars, webVars, workerVars, procVars, mainVars, keysVars>>

Validate ==
    \E tok \in Tokens :
        Validated(tok, ValidateToken(tok, devMode, Cache(cachedKeys, cachedUntil), now,
                                    jwksStatus, jwksDoc))

\* The wall clock advances; the record of the last call is dropped.
Tick ==
    /\ now < MaxClock
    /\ now' = now + 1
    /\ last' = NoCall
    /\ UNCHANGED <<devMode, cachedKeys, cachedUntil, jwksStatus, jwksDoc, parseVars,
                   webVars, workerVars, procVars, mainVars, keysVars>>

\* The JWKS endpoint goes down, comes back, or rotates its keys.
JWKSChange ==
    \E st \in JWKSStatuses, d \in Docs :
        /\ <<st, d>> # <<jwksStatus, jwksDoc>>
        /\ jwksStatus' = st
        /\ jwksDoc' = d
        /\ last' = NoCall
        /\ UNCHANGED <<devMode, cachedKeys, cachedUntil, now, parseVars, webVars,
                       workerVars, procVars, mainVars, keysVars>>

NextValidator == Validate \/ Tick \/ JWKSChange

SpecValidator == InitValidator /\ [][NextValidator]_vars

(***************************************************************************)
(* SpecWeb: requests served by one web.Server                              *)
(***************************************************************************)
InitWeb ==
    /\ ParseIdle /\ WorkerIdle /\ LoopIdle /\ WebProcIdle /\ MainIdle /\ KeysIdle
    /\ devMode \in BOOLEAN
    /\ cachedKeys = NilKeys
    /\ cachedUntil = ZeroTime
    /\ now = 1
    /\ jwksStatus \in {"ok", "unreachable"}
    /\ jwksDoc = Doc1
    /\ last = NoCall
    /\ imagePrefix \in Prefixes
    /\ published = <<>>
    /\ publishCount = 0
    /\ lastReq = NoRequest

\* The record of the ValidateToken call of a request, if it made one.
TokenCall(req, o) ==
    IF Len(o.steps) >= 3
    THEN [done |-> TRUE, tok |-> TrimBearer(req.auth), at |-> now, err |-> o.vt.err,
          claims |-> o.vt.claims, lookups |-> o.vt.lookups,
          evictions |-> o.vt.evictions, key |-> o.vt.key,
          status |-> jwksStatus, doc |-> jwksDoc]
    ELSE NoCall

\* One request served with the outcome o, by a broker that answers pubOK
\* when Publish is called.
Served(req, pubOK, o) ==
    /\ cachedKeys' = o.vt.cache.cachedKeys
    /\ cachedUntil' = o.vt.cache.cachedUntil
    /\ last' = TokenCall(req, o)
    /\ published' = IF Len(o.steps) = Len(EventSteps)
                    THEN Append(published, [msg |-> o.msg, ok |-> o.status = 202])
                    ELSE published
    /\ publishCount' = IF o.status = 202 THEN publishCount + 1 ELSE publishCount
    /\ lastReq' = [done |-> TRUE, req |-> req, status |-> o.status, steps |-> o.steps,
                   tokErr |-> o.vt.err, pv |-> o.pv, pubBefore |-> Len(published),
                   pubOK |-> pubOK \/ Len(o.steps) < Len(EventSteps),
                   prevOwner |-> IF lastReq.done /\ Len(published) = lastReq.pubBefore + 1
                                 THEN lastReq.req.auth.cred.owner ELSE <<>>]
    /\ UNCHANGED <<devMode, now, jwksStatus, jwksDoc, imagePrefix, parseVars, workerVars, procVars, mainVars, keysVars>>

\* The request req, o being its outcome with a broker that accepts the
\* message: the broker's answer matters only when Publish is reached.
ServeOne(req, o) ==
    IF Len(o.steps) = Len(EventSteps)
    THEN \E pubOK \in BOOLEAN :
            Served(req, pubOK,
                   IF pubOK THEN o
                   ELSE Handler(req, devMode, Cache(cachedKeys, cachedUntil), now,
                                jwksStatus, jwksDoc, imagePrefix, FALSE))
    ELSE Served(req, TRUE, o)

Serve ==
    /\ Len(published) < MaxPublished
    /\ \E req \in Requests :
        ServeOne(req, Handler(req, devMode, Cache(cachedKeys, cachedUntil), now,
                              jwksStatus, jwksDoc, imagePrefix, TRUE))

NextWeb == Serve

SpecWeb == InitWeb /\ [][NextWeb]_vars

(***************************************************************************)
(* SpecWorker: the worker's handler, one message at a time, on a cluster   *)
(* that changes under it                                                   *)
(***************************************************************************)
InitWorker ==
    /\ ParseIdle /\ ValidatorIdle /\ WebIdle /\ LoopIdle /\ WebProcIdle /\ MainIdle /\ KeysIdle
    /\ workerPrefix \in Prefixes
    /\ cluster \in Clusters
    /\ messageCount = 0
    /\ pc = "idle"
    /\ imageRefs = <<>>
    /\ refIdx = 0
    /\ matchMap = <<>>
    /\ pending = {}
    /\ calls = <<>>
    /\ lastCall = NoClusterCall
    /\ message = <<>>

\* The handler is entered with the message: the counter, ParseAndValidate,
\* ImageRefs, an empty matchMap.
Entered(msg, pv) ==
    /\ message' = msg
    /\ messageCount' = messageCount + 1
    /\ calls' = <<>>
    /\ lastCall' = NoClusterCall
    /\ matchMap' = <<>>
    /\ pending' = {}
    /\ IF pv.err # ""
       THEN pc' = "idle" /\ imageRefs' = <<>> /\ refIdx' = 0
       ELSE pc' = "find" /\ imageRefs' = ImageRefs(pv.evt) /\ refIdx' = 1
    /\ UNCHANGED <<workerPrefix, cluster, parseVars, validatorVars, webVars, procVars, mainVars, keysVars>>

\* The handler takes a message, mutated: it validates the envelope without
\* the worker's allowed prefix.
Receive_UnderAnyPrefix ==
    /\ pc = "idle"
    /\ messageCount < MaxMessages
    /\ \E msg \in WorkerMessages : Entered(msg, ParseAndValidate(msg, <<>>))

\* The handler takes a message of the channel, whoever published it.
Receive ==
    /\ pc = "idle"
    /\ messageCount < MaxMessages
    /\ \E msg \in WorkerMessages : Entered(msg, ParseAndValidate(msg, workerPrefix))

\* One image reference done, mutated: the restarts begin as soon as matchMap
\* has an entry, and the remaining image references are dropped.
Found_RestartsEarly(mm, call, found) ==
    /\ calls' = Append(calls, call)
    /\ lastCall' = CallDetail(call, found, cluster, cluster)
    /\ matchMap' = mm
    /\ refIdx' = refIdx + 1
    /\ IF DOMAIN mm # {}
       THEN pc' = "restart" /\ pending' = DOMAIN mm
       ELSE IF refIdx < Len(imageRefs)
       THEN pc' = "find" /\ pending' = {}
       ELSE pc' = "idle" /\ pending' = {}
    /\ UNCHANGED <<workerPrefix, cluster, messageCount, imageRefs, message, parseVars,
                   validatorVars, webVars, procVars, mainVars, keysVars>>

\* The first loop went through one image reference and left matchMap as mm.
Found(mm, call, found) ==
    /\ calls' = Append(calls, call)
    /\ lastCall' = CallDetail(call, found, cluster, cluster)
    /\ matchMap' = mm
    /\ refIdx' = refIdx + 1
    /\ IF refIdx < Len(imageRefs)
       THEN pc' = "find" /\ pending' = {}
       ELSE IF DOMAIN mm = {}
       THEN pc' = "idle" /\ pending' = {}
       ELSE pc' = "restart" /\ pending' = DOMAIN mm
    /\ UNCHANGED <<workerPrefix, cluster, messageCount, imageRefs, message, parseVars,
                   validatorVars, webVars, procVars, mainVars, keysVars>>

\* One iteration of the loop over imageRefs; the list call may fail.
FindStep ==
    /\ pc = "find"
    /\ \E listOK \in BOOLEAN, ords \in [1..MaxMatches -> ContainerOrders] :
        IF listOK
        THEN Found(AddMatches(matchMap,
                              FindMatchingDeployments(cluster, 1, imageRefs[refIdx]),
                              1, ords),
                   ListCall(imageRefs[refIdx], TRUE,
                            FindMatchingDeployments(cluster, 1, imageRefs[refIdx])),
                   FindMatchingDeployments(cluster, 1, imageRefs[refIdx]))
        ELSE Found(matchMap, ListCall(imageRefs[refIdx], FALSE, <<>>), <<>>)

\* RestartDeployment returned r for the entry m of matchMap, mutated: the
\* loop ends at the first restart that fails.
Restarted_AbortsOnError(key, m, r) ==
    /\ cluster' = r.items
    /\ calls' = Append(calls, PatchCall(m.Namespace, m.Name, r.err = ""))
    /\ lastCall' = CallDetail(PatchCall(m.Namespace, m.Name, r.err = ""), <<>>, cluster,
                              r.items)
    /\ pending' = IF r.err # "" THEN {} ELSE pending \ {key}
    /\ pc' = IF r.err # "" \/ pending = {key} THEN "idle" ELSE "restart"
    /\ UNCHANGED <<workerPrefix, messageCount, imageRefs, refIdx, matchMap, message, parseVars,
                   validatorVars, webVars, procVars, mainVars, keysVars>>

\* RestartDeployment returned r for the entry m of matchMap.
Restarted(key, m, r) ==
    /\ cluster' = r.items
    /\ calls' = Append(calls, PatchCall(m.Namespace, m.Name, r.err = ""))
    /\ lastCall' = CallDetail(PatchCall(m.Namespace, m.Name, r.err = ""), <<>>, cluster,
                              r.items)
    /\ pending' = pending \ {key}
    /\ pc' = IF pending = {key} THEN "idle" ELSE "restart"
    /\ UNCHANGED <<workerPrefix, messageCount, imageRefs, refIdx, matchMap, message, parseVars,
                   validatorVars, webVars, procVars, mainVars, keysVars>>

\* One iteration of the loop over matchMap, in the map's iteration order.
RestartStep ==
    /\ pc = "restart"
    /\ \E key \in pending, apiOK \in BOOLEAN :
        Restarted(key, matchMap[key],
                  RestartDeployment(cluster, matchMap[key].Namespace,
                                    matchMap[key].Name, now, apiOK))

\* Somebody else changes the Deployments of the cluster.
ClusterChange ==
    /\ \E c \in Clusters : c # cluster /\ cluster' = c
    /\ UNCHANGED <<workerPrefix, messageCount, pc, imageRefs, refIdx, matchMap, pending,
                   calls, lastCall, message, parseVars, validatorVars, webVars, procVars, mainVars, keysVars>>

NextWorker == Receive \/ FindStep \/ RestartStep \/ ClusterChange

SpecWorker == InitWorker /\ [][NextWorker]_vars

(***************************************************************************)
(* Claims about the envelope parser                                        *)
(***************************************************************************)
\* The first JSON value of a text, by the grammar alone.
FirstValue(toks) == ParseValue(toks, SkipWS(toks, 1))

HasTrailingBytes(toks) ==
    /\ FirstValue(toks).ok
    /\ \E j \in FirstValue(toks).next..Len(toks) : toks[j].k # " "

\* C9: ParseAndValidate returns an error for every input that has
\* non-whitespace bytes after the first complete JSON value, whatever those
\* bytes are.
C9_TrailingBytesRejected ==
    (out.done /\ HasTrailingBytes(data)) => out.err # ""

IsStringArray(v) ==
    v.t = "arr" /\ \A i \in 1..Len(v.items) : v.items[i].t = "str"

KeysDistinct(v) ==
    \A i, j \in 1..Len(v.keys) : v.keys[i] = v.keys[j] => i = j

HasForeignKey(v) == \E i \in 1..Len(v.keys) : v.keys[i] \notin {ImageKey, TagsKey}

HasWrongType(v) ==
    \E i \in 1..Len(v.keys) :
        \/ v.keys[i] = ImageKey /\ v.items[i].t # "str"
        \/ v.keys[i] = TagsKey /\ ~IsStringArray(v.items[i])

\* C10: ParseAndValidate returns an error for every JSON object that has a
\* key other than image and tags (a key that differs only in letter case
\* included), and for every object whose image is not a string or whose tags
\* is not an array of strings.
C10_ForeignKeysAndTypesRejected ==
    (/\ out.done
     /\ FirstValue(data).ok
     /\ FirstValue(data).v.t = "obj"
     /\ \/ HasForeignKey(FirstValue(data).v)
        \/ KeysDistinct(FirstValue(data).v) /\ HasWrongType(FirstValue(data).v))
    => out.err # ""

(***************************************************************************)
(* Claims about the validator                                              *)
(***************************************************************************)
OwnerMatches(tok) == EqualFold(tok.owner, AllowedOrg)

\* C4: a token whose repository_owner is not case-insensitively equal to the
\* allowed owner gets an error and no claims, in dev mode and outside it; an
\* owner that differs only in letter case is not rejected for its owner.
C4_ForeignOwnerRejected ==
    last.done =>
        /\ ~OwnerMatches(last.tok) => (last.err # "" /\ ~last.claims.present)
        /\ OwnerMatches(last.tok) => last.err # OwnerError

\* C4 witness: in dev mode a parsable token of a foreign owner was rejected
\* by the organization check.
C4_Witness ==
    /\ last.done /\ devMode
    /\ last.tok.owner = OwnerOther
    /\ last.tok.segs = "ok"
    /\ last.err = OwnerError

ParsesAsJWT(tok) == tok.segs = "ok" /\ tok.alg \in RegisteredMethods

\* C5: in dev mode a token is accepted exactly when it parses as a JWT and
\* its owner matches; signature, exp, aud and iss are not checked and no JWKS
\* lookup or fetch is made.
C5_DevModeAcceptsIffParsesAndOwner ==
    (last.done /\ devMode) =>
        /\ (last.err = "") <=> (ParsesAsJWT(last.tok) /\ OwnerMatches(last.tok))
        /\ (last.err = "") <=> last.claims.present
        /\ last.lookups = <<>>
        /\ cachedKeys = NilKeys /\ cachedUntil = ZeroTime

\* C5 witness: dev mode accepted the token that is expired, has a foreign
\* audience and issuer and is signed by an unknown key.
C5_Witness ==
    /\ last.done /\ devMode
    /\ last.tok = SloppyToken
    /\ last.at >= SloppyToken.exp
    /\ last.err = "" /\ last.claims.present

RSAFamily == {"RS256", "PS256"}

\* The key map the last lookup of the call returned.
FinalKeys == last.lookups[Len(last.lookups)].keys

\* C6: outside dev mode claims are returned only if the alg is an RSA one,
\* the kid resolves to a key of the key set, the signature verifies with it,
\* iss and aud match, exp is present and in the future, nbf (if present) is
\* not in the future, and the owner matches.
C6_ProductionRequiresAll ==
    (last.done /\ ~devMode /\ (last.err = "" \/ last.claims.present)) =>
        /\ last.err = "" /\ last.claims.present
        /\ last.tok.segs = "ok"
        /\ last.tok.alg \in RSAFamily
        /\ last.tok.kid # NoKid
        /\ Len(last.lookups) >= 1
        /\ ~FinalKeys.nil
        /\ last.tok.kid \in DOMAIN FinalKeys.m
        /\ last.tok.sig = FinalKeys.m[last.tok.kid]
        /\ last.tok.iss = GitHubOIDCIssuer
        /\ Audience \in last.tok.aud
        /\ last.tok.exp # NoTime /\ last.at < last.tok.exp
        /\ last.tok.nbf # NoTime => last.tok.nbf <= last.at
        /\ OwnerMatches(last.tok)

\* C6 witness: outside dev mode a token with an nbf claim was accepted.
C6_Witness ==
    /\ last.done /\ ~devMode
    /\ last.err = "" /\ last.claims.present
    /\ last.tok.nbf # NoTime

\* C7: getKeys returns the cached map only before cachedUntil; with the cache
\* unset, evicted or past its TTL it fetches, a failed fetch fails the lookup
\* and leaves the cache alone, and a successful one sets cachedUntil one TTL
\* after the fetch.
C7_NoStaleKeys ==
    last.done =>
        /\ \A i \in 1..Len(last.lookups) :
            /\ (last.lookups[i].preNil \/ last.lookups[i].at >= last.lookups[i].preUntil)
                => /\ last.lookups[i].fetched
                   /\ last.status # "ok" =>
                        (last.lookups[i].err # "" /\ last.lookups[i].keys = NilKeys)
            /\ (~last.lookups[i].fetched /\ last.lookups[i].err = "")
                => /\ last.lookups[i].keys = last.lookups[i].preKeys
                   /\ ~last.lookups[i].preNil
                   /\ last.lookups[i].at < last.lookups[i].preUntil
        /\ (Len(last.lookups) >= 1 /\ last.lookups[Len(last.lookups)].fetched)
            => IF last.lookups[Len(last.lookups)].err = ""
               THEN /\ cachedKeys = FinalKeys
                    /\ cachedUntil = last.at + jwksCacheTTL
               ELSE /\ cachedKeys = last.lookups[Len(last.lookups)].preKeys
                    /\ cachedUntil = last.lookups[Len(last.lookups)].preUntil

\* C7 witness: a lookup found keys in the cache whose TTL had elapsed, the
\* fetch failed, and the lookup failed.
C7_Witness ==
    /\ last.done
    /\ Len(last.lookups) = 1
    /\ ~last.lookups[1].preNil
    /\ last.lookups[1].preUntil # ZeroTime
    /\ last.lookups[1].at >= last.lookups[1].preUntil
    /\ last.lookups[1].fetched
    /\ last.lookups[1].err # ""
    /\ last.err = "failed to fetch JWKS"

KidIn(keys) == ~keys.nil /\ last.tok.kid \in DOMAIN keys.m

\* C8: when the kid is not in the key set of the first lookup, keyFunc evicts
\* the cache and looks up once more; a kid present after the refresh gives
\* its key (and an otherwise valid token is accepted), a kid still absent
\* gives the key-not-found error; no call evicts or refreshes twice.
C8_KidMissRefreshesOnce ==
    (last.done /\ ~devMode) =>
        /\ Len(last.lookups) <= 2
        /\ last.evictions <= 1
        /\ (Len(last.lookups) = 2) <=> (last.evictions = 1)
        /\ (Len(last.lookups) >= 1 /\ last.lookups[1].err = "" /\ ~KidIn(last.lookups[1].keys))
            => /\ last.evictions = 1
               /\ Len(last.lookups) = 2
               /\ last.lookups[2].preUntil = ZeroTime
               /\ last.lookups[2].fetched
               /\ (last.lookups[2].err = "" /\ KidIn(last.lookups[2].keys))
                    => /\ last.key = last.lookups[2].keys.m[last.tok.kid]
                       /\ (/\ last.tok.sig = last.key
                           /\ ClaimsValid(last.tok, parserOpts, last.at)
                           /\ OwnerMatches(last.tok)) => last.err = ""
               /\ (last.lookups[2].err = "" /\ ~KidIn(last.lookups[2].keys))
                    => last.err = "key not found in JWKS"
               /\ last.lookups[2].err # "" => last.err = "failed to refresh JWKS"
        /\ (Len(last.lookups) >= 1 /\ KidIn(last.lookups[1].keys)) => last.evictions = 0

\* C8 witness: the kid was not in the unexpired cache, the refresh fetched a
\* rotated key set that has it, and the token was accepted.
C8_Witness ==
    /\ last.done /\ ~devMode
    /\ Len(last.lookups) = 2
    /\ ~last.lookups[1].fetched
    /\ ~KidIn(last.lookups[1].keys)
    /\ KidIn(last.lookups[2].keys)
    /\ last.err = ""

(***************************************************************************)
(* Claims about the web handler                                            *)
(***************************************************************************)
\* The text is one JSON object with the members image and tags and nothing
\* else, whose image is a non-empty string that starts with prefix and has a
\* '/', and whose tags are a non-empty array of non-empty strings.
IsCanonicalValue(p, n, prefix) ==
    /\ p.ok
    /\ p.next = n + 1
    /\ p.v.t = "obj"
    /\ p.v.keys = <<ImageKey, TagsKey>>
    /\ p.v.items[1].t = "str"
    /\ p.v.items[1].s # <<>>
    /\ HasPrefix(p.v.items[1].s, prefix)
    /\ Contains(p.v.items[1].s, "/")
    /\ p.v.items[2].t = "arr"
    /\ Len(p.v.items[2].items) >= 1
    /\ \A i \in 1..Len(p.v.items[2].items) :
        /\ p.v.items[2].items[i].t = "str"
        /\ p.v.items[2].items[i].s # <<>>

IsCanonicalEnvelope(msg, prefix) == IsCanonicalValue(ParseValue(msg, 1), Len(msg), prefix)

\* C2: every message passed to Publisher.Publish is accepted by
\* ParseAndValidate under the server's prefix and is a canonical envelope.
C2_PublishedMessagesAreValid ==
    \A i \in 1..Len(published) :
        /\ ParseAndValidate(published[i].msg, imagePrefix).err = ""
        /\ IsCanonicalEnvelope(published[i].msg, imagePrefix)

\* C2 witness: a request was accepted whose body was not itself the canonical
\* text, and a message for it was passed to Publish.
C2_Witness ==
    /\ lastReq.done
    /\ lastReq.status = 202
    /\ Len(published) = lastReq.pubBefore + 1
    /\ published[Len(published)].msg # lastReq.req.body
    /\ ~IsCanonicalEnvelope(lastReq.req.body, imagePrefix)

StepIndex(steps, name) ==
    IF \E i \in 1..Len(steps) : steps[i] = name
    THEN Min({i \in 1..Len(steps) : steps[i] = name})
    ELSE 0

\* C3: a request passes a message to Publish only after ValidateToken
\* succeeded on its bearer token and then ParseAndValidate succeeded on its
\* body; a request answered 401 or 400 publishes nothing, which is what a
\* foreign repository_owner, an unknown field and a wrong prefix get.
C3_PublishOnlyAfterBothChecks ==
    lastReq.done =>
        /\ Len(published) \in {lastReq.pubBefore, lastReq.pubBefore + 1}
        /\ Len(published) > lastReq.pubBefore =>
            /\ lastReq.req.method = "POST" /\ lastReq.req.path = "/event"
            /\ last.done
            /\ last.tok = TrimBearer(lastReq.req.auth)
            /\ last.err = "" /\ last.claims.present
            /\ OwnerMatches(last.tok)
            /\ lastReq.pv = ParseAndValidate(LimitRead(lastReq.req.body), imagePrefix)
            /\ lastReq.pv.done /\ lastReq.pv.err = ""
            /\ 0 < StepIndex(lastReq.steps, "ValidateToken")
            /\ StepIndex(lastReq.steps, "ValidateToken")
                    < StepIndex(lastReq.steps, "ParseAndValidate")
            /\ StepIndex(lastReq.steps, "ParseAndValidate")
                    < StepIndex(lastReq.steps, "Publish")
            /\ published[Len(published)].msg = ToJSON(lastReq.pv.evt)
            /\ lastReq.status \in {202, 502}
        /\ lastReq.status \in {400, 401} => Len(published) = lastReq.pubBefore
        /\ (last.done /\ ~OwnerMatches(last.tok)) => lastReq.status = 401
        /\ (last.done /\ last.err = "" /\ ~lastReq.req.bodyErr
                /\ lastReq.req.body \in {ExtraFieldBody, WrongPrefixBody})
            => lastReq.status = 400

\* C3 witness: after an earlier publish, a request with a foreign owner's
\* token and a valid body was answered 401 and nothing was published.
C3_Witness ==
    /\ lastReq.done
    /\ lastReq.status = 401
    /\ lastReq.req.auth = Auth(BearerPrefix, WrongOwnerToken)
    /\ lastReq.req.body = BaseBody
    /\ last.done /\ last.err = OwnerError
    /\ lastReq.pubBefore >= 1
    /\ Len(published) = lastReq.pubBefore

(***************************************************************************)
(* Claims about the worker's handler                                       *)
(***************************************************************************)
\* C1: within one pass RestartDeployment is called at most once for any
\* (namespace, name), whatever the tags and the cluster.
C1_AtMostOneRestartPerDeployment ==
    \A i, j \in 1..Len(calls) :
        (i < j /\ calls[i].op = "patch" /\ calls[j].op = "patch")
            => <<calls[i].ns, calls[i].name>> # <<calls[j].ns, calls[j].name>>

\* C1 witness: a finished pass in which two list calls for different image
\* references both returned the same Deployment, and it was patched.
C1_Witness ==
    /\ pc = "idle"
    /\ \E i, j, k \in 1..Len(calls) :
        /\ i < j /\ j < k
        /\ calls[i].op = "list" /\ calls[j].op = "list" /\ calls[k].op = "patch"
        /\ calls[i].ref # calls[j].ref
        /\ <<calls[k].ns, calls[k].name>> \in Range(calls[i].matches)
        /\ <<calls[k].ns, calls[k].name>> \in Range(calls[j].matches)

(***************************************************************************)
(* Claims about ValidateEvent and the serialization                        *)
(***************************************************************************)
\* The five conditions of a valid event, stated on the event itself.
MeetsRules(evt, prefix) ==
    /\ Len(evt.Image) > 0
    /\ Len(evt.Tags) >= 1
    /\ \A i \in 1..Len(evt.Tags) : Len(evt.Tags[i]) > 0
    /\ Len(prefix) <= Len(evt.Image)
    /\ \A i \in 1..Len(prefix) : evt.Image[i] = prefix[i]
    /\ \E i \in 1..Len(evt.Image) : evt.Image[i] = "/"

\* C11: ValidateEvent returns nil exactly when the image is non-empty, there
\* is at least one tag, no tag is empty, the image starts with the prefix and
\* the image has a '/'; otherwise it returns an error and ParseAndValidate
\* returns no event.
C11_ValidateEventIffRules ==
    (out.done /\ Decode(data).err = "" /\ ~More(data, Decode(data).next)) =>
        /\ (ValidateEvent(Decode(data).evt, allowedPrefix) = "")
                <=> MeetsRules(Decode(data).evt, allowedPrefix)
        /\ MeetsRules(Decode(data).evt, allowedPrefix)
                => (out.err = "" /\ out.evt = Decode(data).evt)
        /\ ~MeetsRules(Decode(data).evt, allowedPrefix)
                => (out.err # "" /\ out.evt = ZeroEvent)

\* C11 witness: an event that meets every rule but the '/' was decoded and
\* ParseAndValidate returned the error and no event.
C11_Witness ==
    /\ out.done
    /\ Decode(data).err = ""
    /\ Decode(data).evt.Image = ImgG
    /\ Len(Decode(data).evt.Tags) >= 1
    /\ \A i \in 1..Len(Decode(data).evt.Tags) : Decode(data).evt.Tags[i] # <<>>
    /\ allowedPrefix = PrefixNoSlash
    /\ out.err = "image is not a valid container image reference"
    /\ out.evt = ZeroEvent

EqualImages(d, ref) ==
    { k \in 1..Len(d.Containers) :
        /\ Len(d.Containers[k].Image) = Len(ref)
        /\ \A x \in 1..Len(ref) : d.Containers[k].Image[x] = ref[x] }

\* C13: a successful FindMatchingDeployments returns exactly the Deployments
\* with at least one container whose image equals imageRef, once each, and
\* with the names of exactly those containers.
C13_FindReturnsExactMatches ==
    (lastCall.call.op = "list" /\ lastCall.call.ok) =>
        /\ \A j \in 1..Len(lastCall.before) :
            (EqualImages(lastCall.before[j], lastCall.call.ref) # {})
                <=> \E k \in 1..Len(lastCall.found) :
                        /\ lastCall.found[k].Namespace = lastCall.before[j].Namespace
                        /\ lastCall.found[k].Name = lastCall.before[j].Name
        /\ \A k \in 1..Len(lastCall.found) :
            \E j \in 1..Len(lastCall.before) :
                /\ lastCall.found[k].Namespace = lastCall.before[j].Namespace
                /\ lastCall.found[k].Name = lastCall.before[j].Name
                /\ Range(lastCall.found[k].ContainerNames)
                       = { lastCall.before[j].Containers[x].Name :
                             x \in EqualImages(lastCall.before[j], lastCall.call.ref) }
                /\ Len(lastCall.found[k].ContainerNames)
                       = Cardinality(EqualImages(lastCall.before[j], lastCall.call.ref))
        /\ \A k, l \in 1..Len(lastCall.found) :
            (k # l) => <<lastCall.found[k].Namespace, lastCall.found[k].Name>>
                           # <<lastCall.found[l].Namespace, lastCall.found[l].Name>>

\* C13 witness: a list over three Deployments returned the two with an equal
\* image, one of them with both its containers, and left out the one whose
\* images share a prefix with imageRef, differ in case or name another image.
C13_Witness ==
    /\ lastCall.call.op = "list" /\ lastCall.call.ok
    /\ lastCall.call.ref = Ref(ImgGS, TagD)
    /\ Len(lastCall.before) = 3
    /\ Len(lastCall.found) = 2
    /\ lastCall.found[1].ContainerNames = << <<"app">> >>
    /\ lastCall.found[2].ContainerNames = << <<"app">>, <<"side">> >>
    /\ \E j \in 1..3 :
        /\ EqualImages(lastCall.before[j], lastCall.call.ref) = {}
        /\ \E x \in 1..Len(lastCall.before[j].Containers) :
            HasPrefix(lastCall.before[j].Containers[x].Image, lastCall.call.ref)
        /\ \E x \in 1..Len(lastCall.before[j].Containers) :
            /\ lastCall.before[j].Containers[x].Image # lastCall.call.ref
            /\ EqualFold(lastCall.before[j].Containers[x].Image, lastCall.call.ref)

\* The Deployment of items with this namespace and name, as a set of positions.
PositionsOf(items, ns, name) ==
    { i \in 1..Len(items) : items[i].Namespace = ns /\ items[i].Name = name }

\* C14: a successful RestartDeployment leaves every other Deployment as it
\* was and changes, in the one it names, nothing but the pod-template
\* annotation kubectl.kubernetes.io/restartedAt; a failed one, and one for a
\* Deployment that does not exist, changes and creates nothing.
C14_RestartChangesOneAnnotation ==
    (lastCall.call.op = "patch") =>
        /\ Len(lastCall.after) = Len(lastCall.before)
        /\ (PositionsOf(lastCall.before, lastCall.call.ns, lastCall.call.name) = {})
               => ~lastCall.call.ok
        /\ ~lastCall.call.ok => lastCall.after = lastCall.before
        /\ \A i \in 1..Len(lastCall.before) :
            IF lastCall.call.ok
               /\ i \in PositionsOf(lastCall.before, lastCall.call.ns, lastCall.call.name)
            THEN /\ lastCall.after[i].Namespace = lastCall.before[i].Namespace
                 /\ lastCall.after[i].Name = lastCall.before[i].Name
                 /\ lastCall.after[i].Containers = lastCall.before[i].Containers
                 /\ lastCall.after[i].Replicas = lastCall.before[i].Replicas
                 /\ lastCall.after[i].Selector = lastCall.before[i].Selector
                 /\ DOMAIN lastCall.after[i].Annotations
                        = (DOMAIN lastCall.before[i].Annotations) \cup {RestartedAtKey}
                 /\ \A k \in (DOMAIN lastCall.before[i].Annotations) \ {RestartedAtKey} :
                        lastCall.after[i].Annotations[k] = lastCall.before[i].Annotations[k]
            ELSE lastCall.after[i] = lastCall.before[i]

\* C14 witness: a successful restart of a Deployment that had another
\* annotation and an older restartedAt, next to a Deployment it left alone.
C14_Witness ==
    /\ lastCall.call.op = "patch" /\ lastCall.call.ok
    /\ Len(lastCall.before) >= 2
    /\ \E i \in PositionsOf(lastCall.before, lastCall.call.ns, lastCall.call.name) :
        /\ DOMAIN lastCall.before[i].Annotations = {"team", RestartedAtKey}
        /\ lastCall.after[i].Annotations[RestartedAtKey]
               # lastCall.before[i].Annotations[RestartedAtKey]
        /\ lastCall.after[i].Annotations["team"] = lastCall.before[i].Annotations["team"]

\* C14, the other case reached: the Deployment was gone when its restart was
\* attempted, the call failed and the cluster stayed as it was.
C14_NotFoundReached ==
    /\ lastCall.call.op = "patch" /\ ~lastCall.call.ok
    /\ PositionsOf(lastCall.before, lastCall.call.ns, lastCall.call.name) = {}
    /\ lastCall.before # <<>>
    /\ lastCall.after = lastCall.before

(***************************************************************************)
(* Claims about the pass as a whole                                        *)
(***************************************************************************)
\* The calls of one kind, in the order the pass made them.
CallsOf(op) == SelectSeq(calls, LAMBDA c : c.op = op)

\* C15: when a pass has ended there was one list call per image reference,
\* in order, whichever of them failed, and every Deployment a successful list
\* returned got exactly one restart attempt, whichever restarts failed.
C15_EveryMatchRestartedOnce ==
    (pc = "idle") =>
        /\ Len(CallsOf("list")) = Len(imageRefs)
        /\ \A i \in 1..Len(imageRefs) : CallsOf("list")[i].ref = imageRefs[i]
        /\ \A i \in 1..Len(calls) :
            (calls[i].op = "list" /\ calls[i].ok) =>
                \A p \in Range(calls[i].matches) :
                    Cardinality({ k \in 1..Len(calls) :
                                    /\ calls[k].op = "patch"
                                    /\ <<calls[k].ns, calls[k].name>> = p }) = 1

\* C15 witness: a finished pass whose first list failed, whose second list
\* returned two Deployments, and whose first restart failed; both
\* Deployments were attempted.
C15_Witness ==
    /\ pc = "idle"
    /\ Len(calls) = 4
    /\ calls[1].op = "list" /\ ~calls[1].ok
    /\ calls[2].op = "list" /\ calls[2].ok /\ Len(calls[2].matches) = 2
    /\ calls[3].op = "patch" /\ ~calls[3].ok
    /\ calls[4].op = "patch"
    /\ {<<calls[3].ns, calls[3].name>>, <<calls[4].ns, calls[4].name>>}
           = Range(calls[2].matches)

(***************************************************************************)
(* SpecLoop: runWorker's retry loop around Subscribe, the signal, and the   *)
(* channel the web process publishes on                                    *)
(***************************************************************************)
\* time.After(5 * time.Second), in seconds.
backoffSeconds == 5

InitLoop ==
    /\ ParseIdle /\ ValidatorIdle /\ WebIdle /\ WorkerIdle /\ WebProcIdle
    /\ LoopIdle /\ MainIdle /\ KeysIdle

\* err := subscriber.Subscribe(ctx, handler): the call.
Subscribe ==
    /\ workerPc = "loop"
    /\ workerPc' = "subscribe"
    /\ subscription' = "connecting"
    /\ UNCHANGED <<ctxCancelled, waited, subErr, inbox, running, busCount, started, lost,
                   parseVars, validatorVars, webVars, workerVars, webProcVars, mainVars, keysVars>>

\* The broker confirms the subscription; the dispatch loop begins.
Confirm ==
    /\ subscription = "connecting"
    /\ subscription' = "active"
    /\ UNCHANGED <<workerPc, ctxCancelled, waited, subErr, inbox, running, busCount,
                   started, lost, parseVars, validatorVars, webVars, workerVars,
                   webProcVars, mainVars, keysVars>>

\* Publisher.Publish, mutated: the channel keeps a message for a subscriber
\* that is not there yet.
Publish_KeepsForLater ==
    /\ busCount < MaxBus
    /\ busCount' = busCount + 1
    /\ inbox' = Append(inbox, busCount + 1)
    /\ lost' = IF subscription \in {"active", "handling"}
               THEN lost
               ELSE lost \cup {<<busCount + 1, workerPc>>}
    /\ UNCHANGED <<workerPc, ctxCancelled, waited, subErr, subscription, running, started,
                   parseVars, validatorVars, webVars, workerVars, webProcVars, mainVars, keysVars>>

\* Publisher.Publish: PUBLISH hands the message to the subscriptions the
\* broker has at that moment and to nobody else.
Publish ==
    /\ busCount < MaxBus
    /\ busCount' = busCount + 1
    /\ IF subscription \in {"active", "handling"}
       THEN inbox' = Append(inbox, busCount + 1) /\ lost' = lost
       ELSE inbox' = inbox /\ lost' = lost \cup {<<busCount + 1, workerPc>>}
    /\ UNCHANGED <<workerPc, ctxCancelled, waited, subErr, subscription, running, started,
                   parseVars, validatorVars, webVars, workerVars, webProcVars, mainVars, keysVars>>

\* The handler is entered with message id, mutated: it counts the message,
\* leaves the pass to a goroutine and returns.
HandlerEnter_InBackground(id) ==
    /\ messageCount' = messageCount + 1
    /\ started' = Append(started, id)
    /\ running' = running \cup {id}
    /\ subscription' = "active"
    /\ UNCHANGED <<workerPrefix, cluster, pc, imageRefs, refIdx, matchMap, pending, calls,
                   lastCall, message, mainVars, keysVars>>

\* The handler is entered with message id: messageCount++, then the pass.
HandlerEnter(id) ==
    /\ messageCount' = messageCount + 1
    /\ started' = Append(started, id)
    /\ running' = running \cup {id}
    /\ subscription' = "handling"
    /\ UNCHANGED <<workerPrefix, cluster, pc, imageRefs, refIdx, matchMap, pending, calls,
                   lastCall, message, mainVars, keysVars>>

\* The dispatch loop takes the next message and calls the handler; it reads
\* no message while the handler has not returned.
Dispatch ==
    /\ subscription = "active"
    /\ inbox # <<>>
    /\ inbox' = Tail(inbox)
    /\ HandlerEnter(Head(inbox))
    /\ UNCHANGED <<workerPc, ctxCancelled, waited, subErr, busCount, lost, parseVars,
                   validatorVars, webVars, webProcVars, mainVars, keysVars>>

\* The pass of a message ends and the handler returns.
HandlerReturn ==
    /\ \E id \in running : running' = running \ {id}
    /\ subscription' = IF subscription = "handling" THEN "active" ELSE subscription
    /\ UNCHANGED <<workerPc, ctxCancelled, waited, subErr, inbox, busCount, started, lost,
                   parseVars, validatorVars, webVars, workerVars, webProcVars, mainVars, keysVars>>

\* Subscribe returns err: the subscription is closed and what it held is
\* dropped.
SubscribeReturned(err) ==
    /\ workerPc = "subscribe"
    /\ subscription \in {"connecting", "active"}
    /\ workerPc' = "returned"
    /\ subscription' = "off"
    /\ inbox' = <<>>
    /\ subErr' = err
    /\ UNCHANGED <<ctxCancelled, waited, running, busCount, started, lost, parseVars,
                   validatorVars, webVars, workerVars, webProcVars, mainVars, keysVars>>

\* The connection to the broker is lost, or the channel of messages ends.
Disconnect == \E err \in {"", "connection lost"} : SubscribeReturned(err)

\* Subscribe sees ctx.Done().
ReturnCancelled == ctxCancelled /\ SubscribeReturned("context canceled")

\* After Subscribe: if ctx.Err() != nil { return nil }; the error is logged;
\* the select begins.
CheckContext_RetriesWhenCancelled ==
    /\ workerPc = "returned"
    /\ workerPc' = "backoff"
    /\ waited' = 0
    /\ UNCHANGED <<ctxCancelled, subErr, subscription, inbox, running, busCount, started,
                   lost, parseVars, validatorVars, webVars, workerVars, webProcVars, mainVars, keysVars>>

CheckContext ==
    /\ workerPc = "returned"
    /\ workerPc' = IF ctxCancelled THEN "exit" ELSE "backoff"
    /\ runErr' = IF ctxCancelled THEN NilError ELSE runErr
    /\ waited' = 0
    /\ UNCHANGED <<ctxCancelled, subErr, subscription, inbox, running, busCount, started,
                   lost, parseVars, validatorVars, webVars, workerVars, webProcVars,
                   subcommand, valkeyAddr, pinged, keysVars>>

\* One second of the select passes; at the fifth time.After delivers and the
\* loop starts over.
WaitTick ==
    /\ workerPc = "backoff"
    /\ ~ctxCancelled
    /\ waited' = waited + 1
    /\ workerPc' = IF waited + 1 = backoffSeconds THEN "loop" ELSE "backoff"
    /\ UNCHANGED <<ctxCancelled, subErr, subscription, inbox, running, busCount, started,
                   lost, parseVars, validatorVars, webVars, workerVars, webProcVars, mainVars, keysVars>>

\* case <-ctx.Done(), mutated: the case leaves the select, not the function.
WaitCancelled_LeavesSelectOnly ==
    /\ workerPc = "backoff"
    /\ ctxCancelled
    /\ workerPc' = "loop"
    /\ UNCHANGED <<ctxCancelled, waited, subErr, subscription, inbox, running, busCount,
                   started, lost, parseVars, validatorVars, webVars, workerVars,
                   webProcVars, mainVars, keysVars>>

\* case <-ctx.Done(): return nil
WaitCancelled ==
    /\ workerPc = "backoff"
    /\ ctxCancelled
    /\ workerPc' = "exit"
    /\ runErr' = NilError
    /\ UNCHANGED <<ctxCancelled, waited, subErr, subscription, inbox, running, busCount,
                   started, lost, parseVars, validatorVars, webVars, workerVars,
                   webProcVars, subcommand, valkeyAddr, pinged, keysVars>>

\* SIGINT or SIGTERM: the signal goroutine calls cancel().
Signal ==
    /\ ~ctxCancelled
    /\ workerPc # "exit"
    /\ ctxCancelled' = TRUE
    /\ UNCHANGED <<workerPc, waited, subErr, subscription, inbox, running, busCount,
                   started, lost, parseVars, validatorVars, webVars, workerVars,
                   webProcVars, mainVars, keysVars>>

NextLoop ==
    \/ Subscribe \/ Confirm \/ Publish \/ Dispatch \/ HandlerReturn
    \/ Disconnect \/ ReturnCancelled \/ CheckContext \/ WaitTick \/ WaitCancelled
    \/ Signal

SpecLoop == InitLoop /\ [][NextLoop]_vars

\* The scheduler runs the main goroutine, a handler returns, and a Subscribe
\* whose context is cancelled returns.
FairLoop ==
    /\ SpecLoop
    /\ WF_vars(Subscribe) /\ WF_vars(CheckContext) /\ WF_vars(WaitTick)
    /\ WF_vars(WaitCancelled) /\ WF_vars(HandlerReturn) /\ WF_vars(ReturnCancelled)

(***************************************************************************)
(* Claims about the retry loop, delivery and shutdown of the worker        *)
(***************************************************************************)
\* C16: when Subscribe has returned and the context is not cancelled the
\* loop goes into the 5-second wait and, unless cancelled meanwhile, calls
\* Subscribe again, and only after the full wait; when the context is
\* cancelled on return from Subscribe or during the wait the loop exits,
\* and after it exited Subscribe is not called any more.
C16_RetryUnlessCancelled ==
    /\ [][/\ (workerPc = "returned" /\ ~ctxCancelled /\ workerPc' # workerPc)
                => (workerPc' = "backoff" /\ waited' = 0)
          /\ (workerPc' = "loop" /\ workerPc # "loop")
                => (workerPc = "backoff" /\ ~ctxCancelled /\ waited' = backoffSeconds)
          /\ (workerPc = "loop" /\ workerPc' # workerPc) => workerPc' = "subscribe"
          /\ (workerPc \in {"returned", "backoff"} /\ ctxCancelled /\ workerPc' # workerPc)
                => workerPc' = "exit"
          /\ (workerPc = "exit") => (workerPc' = "exit" /\ subscription' = subscription)
         ]_vars
    /\ (workerPc = "returned" /\ ~ctxCancelled) ~> (workerPc = "subscribe" \/ ctxCancelled)
    /\ (workerPc \in {"returned", "backoff"} /\ ctxCancelled) ~> (workerPc = "exit")

\* C16 witness: the loop has exited from the middle of a wait, after an
\* earlier wait that ran its 5 seconds and a second Subscribe that handled a
\* message.
C16_Witness ==
    /\ workerPc = "exit"
    /\ ctxCancelled
    /\ waited \in 1..(backoffSeconds - 1)
    /\ \E l \in lost : \E i \in 1..Len(started) : l[2] = "backoff" /\ started[i] > l[1]

\* C17: a message is handed to the handler at most once, and a message
\* published while the worker had no subscription is never handed to it,
\* also not by a later subscription.
C17_AtMostOnce ==
    /\ \A i, j \in 1..Len(started) : (i # j) => started[i] # started[j]
    /\ \A i \in 1..Len(started) :
        /\ started[i] \in 1..busCount
        /\ \A l \in lost : l[1] # started[i]

\* C17 witness: one message was published before the first subscription and
\* one during the backoff; the worker has subscribed again and handled a
\* third message, and neither of the two.
C17_Witness ==
    /\ \E l \in lost : l[1] = 1 /\ l[2] \in {"loop", "subscribe"}
    /\ \E l \in lost : l[1] = 2 /\ l[2] = "backoff"
    /\ started = <<3>>
    /\ running = {}
    /\ subscription = "active"
    /\ inbox = <<>>

\* C18: at most one pass is in progress at any time, it is the pass of the
\* message handed over last, messages are handed over in the order they
\* were received, and messageCount is the number of messages handed over.
C18_OneHandlerAtATime ==
    /\ Cardinality(running) <= 1
    /\ \A id \in running : Len(started) > 0 /\ id = started[Len(started)]
    /\ \A i, j \in 1..Len(started) : (i < j) => started[i] < started[j]
    /\ \A i \in 1..Len(started) : \A k \in 1..Len(inbox) : started[i] < inbox[k]
    /\ messageCount = Len(started)

\* C18 witness: the second message is being handled after the first, while
\* the third, already received, waits for the handler to return.
C18_Witness ==
    /\ started = <<1, 2>>
    /\ running = {2}
    /\ subscription = "handling"
    /\ inbox = <<3>>
    /\ messageCount = 2

\* C20: once the root context is cancelled runWorker eventually returns;
\* when it has returned no Subscribe call and no pass is in progress; and
\* from the return of Subscribe on, under a cancelled context, no message is
\* handed to the handler and the loop goes nowhere but to its return.
C20_CancelledWorkerReturns ==
    /\ ctxCancelled ~> (workerPc = "exit")
    /\ [](workerPc = "exit" => (subscription = "off" /\ running = {}))
    /\ [][(ctxCancelled /\ workerPc \in {"returned", "backoff", "exit"})
             => /\ started' = started
                /\ messageCount' = messageCount
                /\ workerPc' \in {workerPc, "exit"}]_vars

\* C20 witness: runWorker has returned after a signal that came while a
\* message was being handled and another was waiting; the second one was
\* never handled.
C20_Witness ==
    /\ workerPc = "exit"
    /\ ctxCancelled
    /\ waited = 0
    /\ started = <<1>>
    /\ messageCount = 1
    /\ busCount = 2
    /\ lost = {}
    /\ running = {}

\* C20, the other case reached: the signal came during the first backoff and
\* runWorker returned from the middle of the wait.
C20_ExitFromBackoff ==
    /\ workerPc = "exit"
    /\ ctxCancelled
    /\ waited \in 1..(backoffSeconds - 1)
    /\ started = <<>>

(***************************************************************************)
(* SpecShutdown: runWeb from ListenAndServe to the end of the process, the *)
(* signal goroutine in Shutdown, and the requests being handled            *)
(***************************************************************************)
\* context.WithTimeout(context.Background(), 10*time.Second), in seconds.
shutdownSeconds == 10

InitShutdown ==
    /\ ParseIdle /\ ValidatorIdle /\ WebIdle /\ WorkerIdle /\ LoopIdle
    /\ WebProcIdle /\ MainIdle /\ KeysIdle

\* The server accepts a request and starts its handler; Shutdown closes the
\* listeners.
Accept ==
    /\ mainPc = "serving"
    /\ shutPc = "waiting"
    /\ accepted < MaxRequests
    /\ accepted' = accepted + 1
    /\ inflight' = inflight \cup {accepted + 1}
    /\ UNCHANGED <<mainPc, shutPc, atSignal, elapsed, publisherOpen, parseVars,
                   validatorVars, webVars, workerVars, loopVars, mainVars, keysVars>>

\* The handler of a request returns and its response is written.
Complete ==
    /\ mainPc # "exited"
    /\ \E id \in inflight : inflight' = inflight \ {id}
    /\ UNCHANGED <<mainPc, shutPc, accepted, atSignal, elapsed, publisherOpen, parseVars,
                   validatorVars, webVars, workerVars, loopVars, mainVars, keysVars>>

\* SIGINT or SIGTERM: the signal goroutine calls httpServer.Shutdown with a
\* context of 10 seconds.
WebSignal ==
    /\ mainPc = "serving"
    /\ shutPc = "waiting"
    /\ shutPc' = "draining"
    /\ atSignal' = inflight
    /\ elapsed' = 0
    /\ UNCHANGED <<mainPc, inflight, accepted, publisherOpen, parseVars, validatorVars,
                   webVars, workerVars, loopVars, mainVars, keysVars>>

\* One second of Shutdown waiting for the connections to become idle.
ShutdownTick ==
    /\ mainPc # "exited"
    /\ shutPc = "draining"
    /\ inflight # {}
    /\ elapsed < shutdownSeconds
    /\ elapsed' = elapsed + 1
    /\ UNCHANGED <<mainPc, shutPc, inflight, accepted, atSignal, publisherOpen, parseVars,
                   validatorVars, webVars, workerVars, loopVars, mainVars, keysVars>>

\* Shutdown returns: every connection is idle, or its context has expired.
ShutdownReturns ==
    /\ mainPc # "exited"
    /\ shutPc = "draining"
    /\ inflight = {} \/ elapsed = shutdownSeconds
    /\ shutPc' = "finished"
    /\ UNCHANGED <<mainPc, inflight, accepted, atSignal, elapsed, publisherOpen, parseVars,
                   validatorVars, webVars, workerVars, loopVars, mainVars, keysVars>>

\* ListenAndServe returns http.ErrServerClosed as soon as Shutdown has been
\* called, and runWeb goes on to return nil.
ServeReturns ==
    /\ mainPc = "serving"
    /\ shutPc # "waiting"
    /\ mainPc' = "returned"
    /\ runErr' = NilError
    /\ UNCHANGED <<shutPc, inflight, accepted, atSignal, elapsed, publisherOpen, parseVars,
                   validatorVars, webVars, workerVars, loopVars, subcommand, valkeyAddr,
                   pinged, keysVars>>

\* runWeb returns: defer publisher.Close().
DeferredClose ==
    /\ mainPc = "returned"
    /\ mainPc' = "closed"
    /\ publisherOpen' = FALSE
    /\ UNCHANGED <<shutPc, inflight, accepted, atSignal, elapsed, parseVars,
                   validatorVars, webVars, workerVars, loopVars, mainVars, keysVars>>

\* main returns and the process ends, with whatever its goroutines were
\* doing.
ProcessExit ==
    /\ mainPc = "closed"
    /\ mainPc' = "exited"
    /\ UNCHANGED <<shutPc, inflight, accepted, atSignal, elapsed, publisherOpen, parseVars,
                   validatorVars, webVars, workerVars, loopVars, mainVars, keysVars>>

NextShutdown ==
    \/ Accept \/ Complete \/ WebSignal \/ ShutdownTick \/ ShutdownReturns
    \/ ServeReturns \/ DeferredClose \/ ProcessExit

SpecShutdown == InitShutdown /\ [][NextShutdown]_vars

(***************************************************************************)
(* Claims about the shutdown of the web process                            *)
(***************************************************************************)
\* C19: after the signal, while a request that was in flight at the signal
\* is still being handled and the 10 seconds of Shutdown have not passed,
\* the process has not exited and the publisher is not closed.
C19_DrainsBeforeExit ==
    (shutPc # "waiting" /\ (atSignal \cap inflight) # {} /\ elapsed < shutdownSeconds)
        => (mainPc \notin {"closed", "exited"} /\ publisherOpen)

(***************************************************************************)
(* SpecMain: main, the start of runWeb or runWorker with its broker ping,  *)
(* and the mode that follows                                               *)
(***************************************************************************)
\* fmt.Errorf("failed to connect to Valkey at %s: %w", cfg.ValkeyAddr, err)
PingError(addr) == <<"failed to connect to Valkey at ">> \o addr

\* main: a run function that returns an error ends the process with 1.
ExitCode(err) == IF err = NilError THEN 0 ELSE 1

InitMain ==
    /\ ParseIdle /\ ValidatorIdle /\ WebIdle /\ WorkerIdle /\ KeysIdle
    /\ LoopAt("ping") /\ WebProcAt("ping")
    /\ subcommand \in {"web", "worker"}
    /\ valkeyAddr \in { <<"valkey", ":", "6379">>, <<"10.0.0.7", ":", "6380">> }
    /\ pinged = "no"
    /\ runErr = NotReturned

\* runWeb up to the listener, mutated: the result of the ping is not looked
\* at.
WebStarted_IgnoresPing(early, ping) ==
    /\ mainPc' = IF early # NilError THEN "exited" ELSE "serving"
    /\ pinged' = IF early # NilError THEN "no" ELSE ping
    /\ runErr' = IF early # NilError THEN early ELSE runErr
    /\ publisherOpen' = (early = NilError)
    /\ UNCHANGED <<shutPc, inflight, accepted, atSignal, elapsed, subcommand, valkeyAddr,
                   parseVars, validatorVars, webVars, workerVars, loopVars, keysVars>>

\* runWeb up to the listener: an error before the ping returns at once; a
\* failed ping returns its error and the deferred Close runs; otherwise the
\* server is built and ListenAndServe is called.
WebStarted(early, ping) ==
    /\ mainPc' = IF early # NilError \/ ping = "failed" THEN "exited" ELSE "serving"
    /\ pinged' = IF early # NilError THEN "no" ELSE ping
    /\ runErr' = IF early # NilError THEN early
                 ELSE IF ping = "failed" THEN PingError(valkeyAddr) ELSE runErr
    /\ publisherOpen' = (early = NilError /\ ping = "ok")
    /\ UNCHANGED <<shutPc, inflight, accepted, atSignal, elapsed, subcommand, valkeyAddr,
                   parseVars, validatorVars, webVars, workerVars, loopVars, keysVars>>

StartWeb ==
    /\ subcommand = "web"
    /\ mainPc = "ping"
    /\ \E early \in {NilError, <<"invalid configuration">>}, ping \in {"ok", "failed"} :
        WebStarted(early, ping)

\* runWorker up to the retry loop: the configuration, the Kubernetes
\* client, the ping.
WorkerStarted(early, ping) ==
    /\ workerPc' = IF early # NilError \/ ping = "failed" THEN "failed" ELSE "loop"
    /\ pinged' = IF early # NilError THEN "no" ELSE ping
    /\ runErr' = IF early # NilError THEN early
                 ELSE IF ping = "failed" THEN PingError(valkeyAddr) ELSE runErr
    /\ UNCHANGED <<ctxCancelled, waited, subErr, subscription, inbox, running, busCount,
                   started, lost, subcommand, valkeyAddr, parseVars, validatorVars,
                   webVars, workerVars, webProcVars, keysVars>>

StartWorker ==
    /\ subcommand = "worker"
    /\ workerPc = "ping"
    /\ \E early \in {NilError, <<"invalid configuration">>,
                     <<"failed to initialize Kubernetes client">>},
          ping \in {"ok", "failed"} :
        WorkerStarted(early, ping)

NextMain ==
    \/ StartWeb
    \/ StartWorker
    \/ (subcommand = "web" /\ NextShutdown)
    \/ (subcommand = "worker" /\ workerPc \notin {"ping", "failed"} /\ NextLoop)

SpecMain == InitMain /\ [][NextMain]_vars

(***************************************************************************)
(* Claims about the start of the process                                   *)
(***************************************************************************)
\* The characters of t appear in s, in a row.
Names(s, t) ==
    \E k \in 0..(Len(s) - Len(t)) : \A i \in 1..Len(t) : s[k + i] = t[i]

\* C21: the broker is pinged once, before the listener is started and before
\* Subscribe is called; after a failed ping the run function has returned
\* an error that names the broker address, the process ends with code 1,
\* and the listener is never started and Subscribe never called.
C21_PingBeforeServing ==
    /\ [](pinged = "failed" =>
            /\ runErr \notin {NotReturned, NilError}
            /\ Names(runErr, valkeyAddr)
            /\ ExitCode(runErr) = 1
            /\ mainPc \in {"ping", "exited"}
            /\ workerPc \in {"ping", "failed"}
            /\ accepted = 0 /\ subscription = "off" /\ messageCount = 0)
    /\ []((mainPc \notin {"ping", "exited"} \/ workerPc \notin {"ping", "failed"}
           \/ accepted > 0 \/ subscription # "off") => pinged = "ok")
    /\ [][(pinged # "no") => (pinged' = pinged)]_vars

\* C21 witness: the web process has ended on a failed ping, with the error
\* for its address and without a request accepted.
C21_Witness ==
    /\ subcommand = "web"
    /\ pinged = "failed"
    /\ mainPc = "exited"
    /\ runErr = PingError(valkeyAddr)
    /\ ~publisherOpen
    /\ accepted = 0

\* C21, the worker's case reached: runWorker returned the ping's error
\* before the loop.
C21_WorkerFailedReached ==
    /\ subcommand = "worker"
    /\ pinged = "failed"
    /\ workerPc = "failed"
    /\ runErr = PingError(valkeyAddr)
    /\ subscription = "off"

(***************************************************************************)
(* Claims about the order of the checks of a request                       *)
(***************************************************************************)
\* The first step of a request to /event that fails, from the request, the
\* recorded results of ValidateToken and ParseAndValidate and the broker's
\* answer; "none" when all succeed.
FirstFailure(r) ==
    IF r.req.method # "POST" THEN "method"
    ELSE IF r.req.ct = <<>> \/ r.req.ct[1] # "application/json" THEN "content type"
    ELSE IF Len(r.req.auth.scheme) < 2 \/ r.req.auth.scheme[1] # "Bearer"
            \/ r.req.auth.scheme[2] # " "
    THEN "header"
    ELSE IF ~last.done \/ last.err # "" THEN "token"
    ELSE IF r.req.bodyErr THEN "read"
    ELSE IF ~r.pv.done \/ r.pv.err # "" THEN "envelope"
    ELSE IF ~r.pubOK THEN "publish"
    ELSE "none"

\* C22: a request to /event is answered with the status of its first
\* failing step, in the order method, content type, Authorization header,
\* token, body, envelope, publish, and no later step is run; it is answered
\* 202 exactly when no step fails.
C22_FirstFailingStepDecides ==
    (lastReq.done /\ lastReq.req.path = "/event") =>
        /\ lastReq.status =
              CASE FirstFailure(lastReq) = "method"       -> 405
                [] FirstFailure(lastReq) = "content type" -> 400
                [] FirstFailure(lastReq) = "header"       -> 401
                [] FirstFailure(lastReq) = "token"        -> 401
                [] FirstFailure(lastReq) = "read"         -> 400
                [] FirstFailure(lastReq) = "envelope"     -> 400
                [] FirstFailure(lastReq) = "publish"      -> 502
                [] OTHER                                  -> 202
        /\ Len(lastReq.steps) =
              CASE FirstFailure(lastReq) = "method"       -> 0
                [] FirstFailure(lastReq) = "content type" -> 1
                [] FirstFailure(lastReq) = "header"       -> 2
                [] FirstFailure(lastReq) = "token"        -> 3
                [] FirstFailure(lastReq) = "read"         -> 4
                [] FirstFailure(lastReq) = "envelope"     -> 5
                [] OTHER                                  -> 7
        /\ lastReq.steps = SubSeq(EventSteps, 1, Len(lastReq.steps))
        /\ (FirstFailure(lastReq) \in {"method", "content type", "header"}) => ~last.done
        /\ (FirstFailure(lastReq) \in {"method", "content type", "header", "token", "read"})
               => ~lastReq.pv.done
        /\ (lastReq.status = 202) <=> (FirstFailure(lastReq) = "none")

\* C22 witness: a request with a wrong content type and a token of a
\* foreign owner was answered 400 without its token being looked at.
C22_Witness ==
    /\ lastReq.done
    /\ lastReq.req.path = "/event" /\ lastReq.req.method = "POST"
    /\ lastReq.req.ct = <<"text/plain">>
    /\ lastReq.req.auth = Auth(BearerPrefix, WrongOwnerToken)
    /\ lastReq.status = 400
    /\ lastReq.steps = <<"ContentType">>
    /\ ~last.done

\* C22, another case reached: a foreign owner's token with an invalid body
\* was answered 401 and the body was not parsed.
C22_TokenBeforeBodyReached ==
    /\ lastReq.done
    /\ lastReq.req.auth = Auth(BearerPrefix, WrongOwnerToken)
    /\ lastReq.req.body = ExtraFieldBody
    /\ lastReq.status = 401
    /\ ~lastReq.pv.done

(***************************************************************************)
(* Claims about what reaches the bus                                       *)
(***************************************************************************)
\* The texts of the strings of a JSON text, unquoted.
StringsOf(toks) == { Unquote(toks[i].s) : i \in { k \in 1..Len(toks) : toks[k].k = "str" } }

\* The last request passed a message to Publish.
HasPublished == lastReq.done /\ Len(published) = lastReq.pubBefore + 1

\* C23: two requests in a row with the same body pass the same message to
\* Publish, whatever their Authorization headers, and every string of a
\* message is a member name of the envelope or a string of the request's
\* body.
C23_MessageFromBodyOnly ==
    /\ [][(HasPublished /\ HasPublished' /\ lastReq'.req.body = lastReq.req.body)
             => published'[Len(published')].msg = published[Len(published)].msg]_vars
    /\ [](HasPublished =>
            StringsOf(published[Len(published)].msg)
                \subseteq (StringsOf(lastReq.req.body) \cup {ImageKey, TagsKey}))

\* C23 witness: the last two requests had the same body and tokens of
\* different owners, both were accepted, and the two messages are the same.
C23_Witness ==
    /\ HasPublished
    /\ Len(published) = 2
    /\ published[1].ok /\ published[2].ok
    /\ published[1].msg = published[2].msg
    /\ lastReq.req.body = BaseBody
    /\ published[1].msg = ToJSON(Event(ImgGS, <<TagD>>))
    /\ lastReq.req.auth.cred.owner = AllowedOrg
    /\ lastReq.prevOwner = OwnerLower

(***************************************************************************)
(* C24: the size limit of the body of POST /event                          *)
(***************************************************************************)
\* C24: a request whose body is longer than maxPayloadSize is never accepted:
\* its status is not 202 and nothing is published for it.
C24_OversizeBodyNeverAccepted ==
    (lastReq.done /\ Len(lastReq.req.body) > maxPayloadSize)
        => /\ lastReq.status # 202
           /\ (Len(published) = lastReq.pubBefore \/ ~published[Len(published)].ok)

\* The request with OversizeBody was answered with 202 and what the limited
\* read left of its body was published.
C24_OversizeAccepted ==
    /\ lastReq.done
    /\ lastReq.req.body = OversizeBody
    /\ Len(LimitRead(lastReq.req.body)) < Len(lastReq.req.body)
    /\ lastReq.status = 202
    /\ Len(published) = lastReq.pubBefore + 1
    /\ published[Len(published)].ok
    /\ published[Len(published)].msg = BaseBody

(***************************************************************************)
(* C25: the worker validates every message before it touches the cluster   *)
(***************************************************************************)
\* C25: the worker makes list or patch calls only for a message that passes
\* ParseAndValidate under the worker's own prefix; a message that fails is
\* skipped without a cluster call; every image reference the worker queries
\* starts with the worker's prefix.
C25_ClusterCallsOnlyForValidMessages ==
    /\ (calls # <<>> \/ pc # "idle")
            => ParseAndValidate(message, workerPrefix).err = ""
    /\ (messageCount > 0 /\ ParseAndValidate(message, workerPrefix).err # "")
            => (calls = <<>> /\ lastCall = NoClusterCall /\ pc = "idle")
    /\ \A i \in 1..Len(calls) :
            calls[i].op = "list" => HasPrefix(calls[i].ref, workerPrefix)

\* The second message is a valid envelope with an image outside the worker's
\* prefix, on a cluster that is not empty: it was skipped without a call.
C25_Witness ==
    /\ messageCount = 2
    /\ message = WrongPrefixBody
    /\ ParseAndValidate(message, <<>>).err = ""
    /\ ParseAndValidate(message, workerPrefix).err # ""
    /\ cluster # <<>>
    /\ pc = "idle"
    /\ calls = <<>>

\* A message under the worker's prefix led to a list call and a patch call.
C25_CallsReached ==
    /\ ParseAndValidate(message, workerPrefix).err = ""
    /\ \E i, j \in 1..Len(calls) :
            /\ calls[i].op = "list" /\ HasPrefix(calls[i].ref, workerPrefix)
            /\ calls[j].op = "patch" /\ calls[j].ok

(***************************************************************************)
(* C26, C27: key sets without a usable key, tokens without a kid            *)
(***************************************************************************)
UsableKeys(doc) == DOMAIN CollectKeys(doc, 1, <<>>)

\* C26: a JWKS fetch whose document yields no usable RSA key returns an
\* error, and an empty key set is never installed in the cache; skipped
\* entries next to a usable one do not make the fetch fail.
C26_NoUsableKeyFailsFetch ==
    /\ ~cachedKeys.nil => DOMAIN cachedKeys.m # {}
    /\ last.done =>
          \A i \in 1..Len(last.lookups) :
              (last.lookups[i].fetched /\ last.status = "ok")
                  => (last.lookups[i].err # "" <=> UsableKeys(last.doc) = {})

\* The endpoint answered 200 with a document of skipped entries only, and
\* the call left an empty key map in the cache for one TTL.
C26_EmptyKeySetInstalled ==
    /\ last.done
    /\ last.status = "ok"
    /\ last.doc = DocSkipped
    /\ Len(last.lookups) > 0
    /\ last.lookups[1].fetched
    /\ last.lookups[1].err = ""
    /\ ~cachedKeys.nil
    /\ DOMAIN cachedKeys.m = {}
    /\ cachedUntil = now + jwksCacheTTL

\* C27: outside dev mode ValidateToken rejects every token whose header has
\* no kid or an empty kid, whatever the key set contains.
C27_KidRequiredNonEmpty ==
    (last.done /\ ~devMode /\ last.tok.kid \in {NoKid, ""})
        => (last.err # "" /\ ~last.claims.present)

\* A token with the empty kid was accepted with the key of a key-set entry
\* that has no kid.
C27_EmptyKidAccepted ==
    /\ last.done
    /\ ~devMode
    /\ last.tok.kid = ""
    /\ last.doc = DocNoKid
    /\ last.err = ""
    /\ last.claims.present
    /\ last.key = "K1"

(***************************************************************************)
(* C30: a kid miss evicts the cache, and a failed refresh leaves it evicted *)
(***************************************************************************)
\* The cache holds a key map and the zero time.
Evicted(keys, until) == ~keys.nil /\ until = ZeroTime

\* C30: outside dev mode, a call whose kid is not in the key set that getKeys
\* returned sets cachedUntil to the zero time and fetches, also when the
\* cache was not expired; when that fetch fails the cache is left with the
\* old keys and the zero time; and the next call with a kid of the evicted
\* cache fetches again and fails when the fetch fails.
C30_KidMissEvictsCache ==
    /\ []((/\ last.done /\ ~devMode
           /\ Len(last.lookups) >= 1
           /\ last.lookups[1].err = ""
           /\ ~KidIn(last.lookups[1].keys))
          => /\ Len(last.lookups) = 2
             /\ last.lookups[2].preKeys = last.lookups[1].keys
             /\ last.lookups[2].preUntil = ZeroTime
             /\ last.lookups[2].fetched
             /\ last.lookups[2].err # ""
                    => /\ cachedKeys = last.lookups[1].keys
                       /\ cachedUntil = ZeroTime
                       /\ last.err = "failed to refresh JWKS")
    /\ [][(/\ Evicted(cachedKeys, cachedUntil) /\ ~devMode
           /\ last'.done
           /\ last'.tok.kid \in DOMAIN cachedKeys.m
           /\ Len(last'.lookups) >= 1)
          => /\ last'.lookups[1].fetched
             /\ last'.status # "ok"
                    => /\ last'.err = "failed to fetch JWKS"
                       /\ Evicted(cachedKeys', cachedUntil')
                       /\ cachedKeys' = cachedKeys]_vars

\* A token with an unknown kid met an unexpired cache that holds k1 while the
\* endpoint was down: the cache is left with k1 and the zero time.
C30_Witness ==
    /\ last.done /\ ~devMode
    /\ last.tok.kid = "k2"
    /\ Len(last.lookups) = 2
    /\ ~last.lookups[1].fetched
    /\ last.at < last.lookups[1].preUntil
    /\ last.lookups[2].fetched
    /\ last.lookups[2].err # ""
    /\ last.status = "unreachable"
    /\ Evicted(cachedKeys, cachedUntil)
    /\ DOMAIN cachedKeys.m = {"k1"}

\* The token of the cached kid k1 was rejected for the failed fetch, though
\* the keys of the cache were fetched less than one TTL ago.
C30_CachedKidRejected ==
    /\ last.done /\ ~devMode
    /\ last.tok = BaseToken
    /\ Len(last.lookups) = 1
    /\ Evicted(last.lookups[1].preKeys, last.lookups[1].preUntil)
    /\ "k1" \in DOMAIN last.lookups[1].preKeys.m
    /\ last.lookups[1].fetched
    /\ last.err = "failed to fetch JWKS"
    /\ last.at = 1
    /\ Evicted(cachedKeys, cachedUntil)

(***************************************************************************)
(* C29: the order of the calls of one pass                                 *)
(***************************************************************************)
\* The Deployments that the successful list calls of the pass returned.
Listed ==
    UNION { Range(calls[i].matches) : i \in { k \in 1..Len(calls) : calls[k].ok } }

\* C29: in one pass the list calls come one per tag, in tag order, failed or
\* not, and all of them before the first patch call; no patch call is made
\* twice for a Deployment, failed or not; patch calls are made only for
\* Deployments that a list returned, so a pass without a match makes none.
C29_PhasesOrderedNoRetry ==
    /\ Len(CallsOf("list")) <= Len(imageRefs)
    /\ \A k \in 1..Len(CallsOf("list")) : CallsOf("list")[k].ref = imageRefs[k]
    /\ \A i, j \in 1..Len(calls) :
            (i < j /\ calls[i].op = "patch") => calls[j].op = "patch"
    /\ CallsOf("patch") # <<>> => Len(CallsOf("list")) = Len(imageRefs)
    /\ pc = "idle" => Len(CallsOf("list")) = Len(imageRefs)
    /\ \A i, j \in 1..Len(calls) :
            (calls[i].op = "patch" /\ calls[j].op = "patch"
             /\ calls[i].ns = calls[j].ns /\ calls[i].name = calls[j].name) => i = j
    /\ \A i \in 1..Len(calls) :
            calls[i].op = "patch" => <<calls[i].ns, calls[i].name>> \in Listed
    /\ Listed = {} => CallsOf("patch") = <<>>

\* A finished pass of two tags: the first list failed and was not repeated,
\* the second returned two Deployments, the first patch failed and was not
\* repeated, the second patch went through.
C29_Witness ==
    /\ pc = "idle"
    /\ Len(imageRefs) = 2
    /\ imageRefs[1] # imageRefs[2]
    /\ Len(calls) = 4
    /\ calls[1].op = "list" /\ ~calls[1].ok /\ calls[1].ref = imageRefs[1]
    /\ calls[2].op = "list" /\ calls[2].ok /\ calls[2].ref = imageRefs[2]
    /\ Len(calls[2].matches) = 2
    /\ calls[3].op = "patch" /\ ~calls[3].ok
    /\ calls[4].op = "patch" /\ calls[4].ok

\* A finished pass on a cluster with Deployments in which no list returned a
\* match: two list calls and nothing else.
C29_NoMatchReached ==
    /\ pc = "idle"
    /\ cluster # <<>>
    /\ Len(imageRefs) = 2
    /\ Len(calls) = 2
    /\ calls[1].ok /\ calls[2].ok
    /\ Listed = {}

(***************************************************************************)
(* SpecKeys: concurrent ValidateToken calls on one Validator, dev mode off; *)
(* each goroutine goes through keyFunc and getKeys step by step            *)
(***************************************************************************)
Callers == 1..MaxCallers

\* v.cachedKeys != nil && time.Now().Before(v.cachedUntil)
CacheValid(keys, until, t) == ~keys.nil /\ t < until

\* The key map that held refers to.
Deref(h, ref) == IF ref = 0 THEN NilKeys ELSE KeyMap(h[ref])

\* The cache at start: nil, expired, or filled less than one TTL ago.
InitKeys ==
    /\ ParseIdle /\ WebIdle /\ WorkerIdle /\ LoopIdle /\ WebProcIdle /\ MainIdle
    /\ devMode = FALSE
    /\ now = 1
    /\ last = NoCall
    /\ jwksStatus \in {"ok", "unreachable"}
    /\ jwksDoc \in {Doc1, Doc12}
    /\ \E start \in {"nil", "expired", "fresh"} :
          /\ heap = IF start = "nil" THEN <<>> ELSE <<CollectKeys(Doc1, 1, <<>>)>>
          /\ cacheRef = Len(heap)
          /\ cachedKeys = Deref(heap, cacheRef)
          /\ cachedUntil = IF start = "nil" THEN ZeroTime
                           ELSE IF start = "expired" THEN now
                           ELSE now + jwksCacheTTL
    /\ callers = [g \in Callers |-> NoCaller]
    /\ mu = Unlocked
    /\ fetchCount = 0
    /\ evictCount = 0

KeysFrame ==
    UNCHANGED <<devMode, now, jwksStatus, jwksDoc, last, parseVars, webVars, workerVars,
                procVars, mainVars>>
CacheFrame == UNCHANGED <<cachedKeys, cachedUntil, heap, cacheRef, fetchCount>>

\* ValidateToken is called with a well-formed RS256 token of this kid;
\* keyFunc calls getKeys.
StartCall(g) ==
    /\ callers[g].pc = "idle"
    /\ \E kid \in {"k1", "k2"} :
          callers' = [callers EXCEPT ![g] = [NoCaller EXCEPT !.pc = "rlock", !.kid = kid,
                                                            !.round = 1]]
    /\ UNCHANGED <<mu, evictCount>>
    /\ CacheFrame /\ KeysFrame

\* getKeys: v.mu.RLock()
RLock(g) ==
    /\ callers[g].pc = "rlock"
    /\ mu.writer = 0
    /\ mu' = [mu EXCEPT !.readers = @ \cup {g}]
    /\ callers' = [callers EXCEPT ![g].pc = "rcheck"]
    /\ UNCHANGED evictCount
    /\ CacheFrame /\ KeysFrame

\* getKeys: the check under the read lock, then RUnlock.
ReadCheck(g) ==
    /\ callers[g].pc = "rcheck"
    /\ mu' = [mu EXCEPT !.readers = @ \ {g}]
    /\ callers' = IF CacheValid(cachedKeys, cachedUntil, now)
                  THEN [callers EXCEPT ![g].pc = "lookup", ![g].held = cacheRef]
                  ELSE [callers EXCEPT ![g].pc = "lock", ![g].stale = TRUE]
    /\ UNCHANGED evictCount
    /\ CacheFrame /\ KeysFrame

\* getKeys: v.mu.Lock()
Lock(g) ==
    /\ callers[g].pc = "lock"
    /\ mu = Unlocked
    /\ mu' = [mu EXCEPT !.writer = g]
    /\ callers' = [callers EXCEPT ![g].pc = "dcheck"]
    /\ UNCHANGED evictCount
    /\ CacheFrame /\ KeysFrame

\* The double check, mutated: the write-locked caller always goes on to fetch.
DoubleCheck_AlwaysFetches(g) ==
    /\ callers[g].pc = "dcheck"
    /\ mu.writer = g
    /\ mu' = mu
    /\ callers' = [callers EXCEPT ![g].pc = "fetch"]
    /\ UNCHANGED evictCount
    /\ CacheFrame /\ KeysFrame

\* getKeys: the double check under the write lock; a valid cache is returned
\* and the deferred Unlock runs.
DoubleCheck(g) ==
    /\ callers[g].pc = "dcheck"
    /\ mu.writer = g
    /\ IF CacheValid(cachedKeys, cachedUntil, now)
       THEN /\ mu' = Unlocked
            /\ callers' = [callers EXCEPT ![g].pc = "lookup", ![g].held = cacheRef]
       ELSE /\ mu' = mu
            /\ callers' = [callers EXCEPT ![g].pc = "fetch"]
    /\ UNCHANGED evictCount
    /\ CacheFrame /\ KeysFrame

\* getKeys: fetchJWKS under the write lock returned r; an error is passed
\* on, a new map is installed for one TTL; the deferred Unlock runs.
Fetched(g, r) ==
    /\ mu' = Unlocked
    /\ cachedKeys' = r.cache.cachedKeys
    /\ cachedUntil' = r.cache.cachedUntil
    /\ IF r.err # ""
       THEN /\ UNCHANGED <<heap, cacheRef, fetchCount>>
            /\ callers' = [callers EXCEPT ![g].pc = "done",
                              ![g].err = IF callers[g].round = 1
                                         THEN "failed to fetch JWKS"
                                         ELSE "failed to refresh JWKS"]
       ELSE /\ heap' = Append(heap, r.keys.m)
            /\ cacheRef' = Len(heap) + 1
            /\ fetchCount' = fetchCount + 1
            /\ callers' = [callers EXCEPT ![g].pc = "lookup", ![g].held = Len(heap) + 1,
                                          ![g].fetched = TRUE]
    /\ UNCHANGED evictCount
    /\ KeysFrame

Fetch(g) ==
    /\ callers[g].pc = "fetch"
    /\ mu.writer = g
    /\ Fetched(g, getKeysFetched(Cache(cachedKeys, cachedUntil), now,
                                 fetchJWKS(jwksStatus, jwksDoc)))

\* keyFunc: keys[kid] on the map that getKeys returned; a miss after the
\* refresh is an error.
KidLookup(g) ==
    /\ callers[g].pc = "lookup"
    /\ callers' =
          IF callers[g].kid \in DOMAIN heap[callers[g].held]
          THEN [callers EXCEPT ![g].pc = "done"]
          ELSE IF callers[g].round = 1
          THEN [callers EXCEPT ![g].pc = "evict"]
          ELSE [callers EXCEPT ![g].pc = "done", ![g].err = "key not found in JWKS"]
    /\ UNCHANGED <<mu, evictCount>>
    /\ CacheFrame /\ KeysFrame

\* keyFunc on a miss: Lock, cachedUntil = time.Time{}, Unlock; then getKeys
\* once more.
EvictCache(g) ==
    /\ callers[g].pc = "evict"
    /\ mu = Unlocked
    /\ cachedUntil' = Evict(Cache(cachedKeys, cachedUntil)).cachedUntil
    /\ evictCount' = evictCount + 1
    /\ callers' = [callers EXCEPT ![g].pc = "rlock", ![g].round = 2, ![g].held = 0]
    /\ UNCHANGED <<mu, cachedKeys, heap, cacheRef, fetchCount>>
    /\ KeysFrame

NextKeys ==
    \E g \in Callers :
        \/ StartCall(g)
        \/ RLock(g)
        \/ ReadCheck(g)
        \/ Lock(g)
        \/ DoubleCheck(g)
        \/ Fetch(g)
        \/ KidLookup(g)
        \/ EvictCache(g)

SpecKeys == InitKeys /\ [][NextKeys]_vars

(***************************************************************************)
(* C28: one fetch for concurrent callers, key maps never modified          *)
(***************************************************************************)
\* The callers that found the cache empty or expired under the read lock
\* and have left getKeys.
Returned(g) == callers[g].stale /\ callers[g].pc \in {"lookup", "evict", "done"}

C28_BothWaitForLock ==
    /\ \A g \in Callers : callers[g].stale
    /\ \E g, h \in Callers :
            g # h /\ callers[g].pc = "fetch" /\ callers[h].pc = "lock"

====
